---- MODULE Spec2Model ----
(***************************************************************************)
(* Model of the three Trie classes of quantavil/txt-autocomplete:          *)
(*   - the frequency Trie of src/main.js (lines 391-546),                   *)
(*   - the sorted Trie of src/main.js (lines 7-62),                         *)
(*   - the fuzzy Trie of src/unnamed/part_000 (lines 9-107).                *)
(* A string is a sequence of one-character strings; every character is a   *)
(* letter of one UTF-16 code unit, so iterating a string with for...of and  *)
(* indexing it with [i] visit the same characters.  A JavaScript Map is a   *)
(* sequence of [key, value] entries in insertion order, which is the order  *)
(* in which a Map iterates.  A TrieNode is a record nested to any depth.    *)
(***************************************************************************)
EXTENDS Integers, Sequences, FiniteSets, TLC

VARIABLES
    impl,      \* which Trie class this behaviour drives: "freq", "fuzzy", "sorted"
    ftrie,     \* frequency Trie: [root, wordCount]
    fstored,   \* history: the set of words a set-of-words dictionary would hold
    trie,      \* part_000 Trie: its root node
    strie,     \* sorted Trie of main.js: its root node
    last,      \* the last call made and what it returned
    pre,       \* the trie the last call was made on
    nops,      \* number of mutating calls made so far
    settings,  \* the plugin's settings
    ui,        \* the suggestions on show: the AutocompleteUI of main.js, or the
               \* value of GhostTextState of part_000
    editor,    \* the text of the line before the cursor
    timer,     \* the pending debounce timer: null, or what its callback captured
    documentWords  \* documentWords of the plugin that owns the frequency Trie

\* the state of the plugin around its trie
pluginVars == <<settings, ui, editor, timer, documentWords>>

vars == <<impl, ftrie, fstored, trie, strie, last, pre, nops, pluginVars>>

----------------------------------------------------------------------------
(* Bounds *)

\* mutating calls (insert, remove) made on the frequency Trie in one behaviour
MaxOps == 3
\* insert calls made on an insert-only Trie in one behaviour
MaxInserts == 2
\* largest limit a query is made with
MaxLimit == 2
\* largest edit budget searchFuzzy is called with
MaxEdits == 1
\* characters in the line of the editor before typing stops
MaxText == 3
\* words of the dictionary inserted before searchFuzzy is called
MaxStored == 5
\* characters deleted with Backspace in one behaviour
MaxDeletes == 1

----------------------------------------------------------------------------
(* Characters and strings *)

\* the lower-case letters, in alphabetical order
Alphabet == <<"a", "b">>

Chars == {Alphabet[i] : i \in DOMAIN Alphabet}

\* the blank, which sorts before every letter, and the letters in their order
Collation == <<" ">> \o Alphabet

CharRank(c) == CHOOSE i \in DOMAIN Collation : Collation[i] = c

\* String.prototype.toLowerCase / toUpperCase on one character
LowerChar(c) == CASE c = "A" -> "a" [] c = "B" -> "b" [] OTHER -> c

UpperChar(c) == CASE c = "a" -> "A" [] c = "b" -> "B" [] OTHER -> c

toLowerCase(s) == [i \in DOMAIN s |-> LowerChar(s[i])]

toUpperCase(s) == [i \in DOMAIN s |-> UpperChar(s[i])]

\* every lower-case string of one, two and three letters
Words1 == {<<c>> : c \in Chars}

Words2 == {<<c, d>> : c, d \in Chars}

Words3 == {<<c, d, e>> : c, d, e \in Chars}

LowerWords == {<<>>} \cup Words1 \cup Words2 \cup Words3

\* the strings the calls are made with: the empty string, every lower-case
\* string of up to three letters, and two strings with upper-case letters
InputWords == LowerWords \cup {<<"A", "b">>, <<"B", "A", "B">>}

startsWith(s, p) == Len(p) <= Len(s) /\ SubSeq(s, 1, Len(p)) = p

\* a.localeCompare(b) < 0 on lower-case words: dictionary order
RECURSIVE localeLess(_, _)
localeLess(a, b) ==
    IF a = <<>> THEN b # <<>>
    ELSE IF b = <<>> THEN FALSE
    ELSE IF a[1] # b[1] THEN CharRank(a[1]) < CharRank(b[1])
    ELSE localeLess(Tail(a), Tail(b))

\* null/undefined, and a value that is not null
Null == <<>>
Some(v) == <<v>>

\* a string argument that is missing (undefined) or null; no string is equal to it
Undefined == <<"undefined">>

\* !s for a string argument: the empty string, null and undefined are falsy
Falsy(s) == s = <<>> \/ s = Undefined

\* the string of one blank
Blank == <<" ">>

\* Array.prototype.sort, a stable sort: before[i][j] is TRUE iff the comparator
\* puts s[i] before s[j]
StableSort(s, before) ==
    LET rank(i) == Cardinality({j \in DOMAIN s :
                        before[j][i] \/ (~before[i][j] /\ j < i)}) + 1
    IN [r \in DOMAIN s |-> s[CHOOSE i \in DOMAIN s : rank(i) = r]]

\* Array.prototype.slice(0, n) for n >= 0
slice0(s, n) == SubSeq(s, 1, IF n < Len(s) THEN n ELSE Len(s))

Range(s) == {s[i] : i \in DOMAIN s}

----------------------------------------------------------------------------
(* JavaScript Map: entries in insertion order *)

MapHas(m, k) == \E i \in DOMAIN m : m[i].key = k

MapIndex(m, k) == CHOOSE i \in DOMAIN m : m[i].key = k

MapGet(m, k) == m[MapIndex(m, k)].value

\* set keeps the position of an existing key and appends a new one
MapSet(m, k, v) ==
    IF MapHas(m, k) THEN [m EXCEPT ![MapIndex(m, k)].value = v]
    ELSE Append(m, [key |-> k, value |-> v])

MapDelete(m, k) == SelectSeq(m, LAMBDA e : e.key # k)

----------------------------------------------------------------------------
(* The frequency Trie of src/main.js *)

FreqTrieNode == [children |-> <<>>, isWord |-> FALSE, frequency |-> 0, word |-> Null]

FreqTrie == [root |-> FreqTrieNode, wordCount |-> 0]

\* the loop of insert from position i on, and lines 419-424 at the end of the
\* path; added is 1 iff wordCount++ ran
RECURSIVE FreqInsertWalk(_, _, _, _)
FreqInsertWalk(node, word, i, frequency) ==
    IF i > Len(word)
    THEN [node  |-> [node EXCEPT !.isWord = TRUE, !.word = Some(word),
                                 !.frequency = @ + frequency],
          added |-> IF node.isWord THEN 0 ELSE 1]
    ELSE LET char  == word[i]
             child == IF MapHas(node.children, char)
                      THEN MapGet(node.children, char) ELSE FreqTrieNode
             r     == FreqInsertWalk(child, word, i + 1, frequency)
         IN [node  |-> [node EXCEPT !.children = MapSet(@, char, r.node)],
             added |-> r.added]

\* insert with wordCount++ outside the test of line 419
FreqInsert_CountAlways(t, word, frequency) ==
    IF Falsy(word) \/ Len(word) < 2 THEN t
    ELSE LET r == FreqInsertWalk(t.root, toLowerCase(word), 1, frequency)
         IN [root |-> r.node, wordCount |-> t.wordCount + 1]

FreqInsert(t, word, frequency) ==
    IF Falsy(word) \/ Len(word) < 2 THEN t
    ELSE LET r == FreqInsertWalk(t.root, toLowerCase(word), 1, frequency)
         IN [root |-> r.node, wordCount |-> t.wordCount + r.added]

\* _removeHelper: index counts from 0 as in the source; removed is 1 iff
\* wordCount-- ran
RECURSIVE FreqRemoveHelper(_, _, _)
\* _removeHelper returning true at the end of the path whatever the children
FreqRemoveHelper_DeleteAlways(node, word, index) ==
    IF index = Len(word)
    THEN LET n2 == IF node.isWord
                   THEN [node EXCEPT !.isWord = FALSE, !.word = Null] ELSE node
         IN [node |-> n2, shouldDelete |-> TRUE,
             removed |-> IF node.isWord THEN 1 ELSE 0]
    ELSE LET char == word[index + 1]
         IN IF ~MapHas(node.children, char)
            THEN [node |-> node, shouldDelete |-> FALSE, removed |-> 0]
            ELSE LET r == FreqRemoveHelper(MapGet(node.children, char), word, index + 1)
                 IN IF r.shouldDelete
                    THEN LET n2 == [node EXCEPT !.children = MapDelete(@, char)]
                         IN [node |-> n2,
                             shouldDelete |-> Len(n2.children) = 0 /\ ~n2.isWord,
                             removed |-> r.removed]
                    ELSE [node |-> [node EXCEPT !.children = MapSet(@, char, r.node)],
                          shouldDelete |-> FALSE, removed |-> r.removed]

\* _removeHelper returning false after it deleted a child: the parents are kept
FreqRemoveHelper_NoPropagate(node, word, index) ==
    IF index = Len(word)
    THEN LET n2 == IF node.isWord
                   THEN [node EXCEPT !.isWord = FALSE, !.word = Null] ELSE node
         IN [node |-> n2, shouldDelete |-> Len(n2.children) = 0,
             removed |-> IF node.isWord THEN 1 ELSE 0]
    ELSE LET char == word[index + 1]
         IN IF ~MapHas(node.children, char)
            THEN [node |-> node, shouldDelete |-> FALSE, removed |-> 0]
            ELSE LET r == FreqRemoveHelper(MapGet(node.children, char), word, index + 1)
                 IN IF r.shouldDelete
                    THEN [node |-> [node EXCEPT !.children = MapDelete(@, char)],
                          shouldDelete |-> FALSE, removed |-> r.removed]
                    ELSE [node |-> [node EXCEPT !.children = MapSet(@, char, r.node)],
                          shouldDelete |-> FALSE, removed |-> r.removed]

FreqRemoveHelper(node, word, index) ==
    IF index = Len(word)
    THEN LET n2 == IF node.isWord
                   THEN [node EXCEPT !.isWord = FALSE, !.word = Null] ELSE node
         IN [node |-> n2, shouldDelete |-> Len(n2.children) = 0,
             removed |-> IF node.isWord THEN 1 ELSE 0]
    ELSE LET char == word[index + 1]
         IN IF ~MapHas(node.children, char)
            THEN [node |-> node, shouldDelete |-> FALSE, removed |-> 0]
            ELSE LET r == FreqRemoveHelper(MapGet(node.children, char), word, index + 1)
                 IN IF r.shouldDelete
                    THEN LET n2 == [node EXCEPT !.children = MapDelete(@, char)]
                         IN [node |-> n2,
                             shouldDelete |-> Len(n2.children) = 0 /\ ~n2.isWord,
                             removed |-> r.removed]
                    ELSE [node |-> [node EXCEPT !.children = MapSet(@, char, r.node)],
                          shouldDelete |-> FALSE, removed |-> r.removed]

\* remove without word.toLowerCase()
FreqRemove_NoLower(t, word) ==
    LET r == FreqRemoveHelper(t.root, word, 0)
    IN [root |-> r.node, wordCount |-> t.wordCount - r.removed]

\* remove with wordCount-- outside the test of line 434
FreqRemove_CountAlways(t, word) ==
    LET r == FreqRemoveHelper(t.root, toLowerCase(word), 0)
    IN [root |-> r.node, wordCount |-> t.wordCount - 1]

FreqRemove(t, word) ==
    LET r == FreqRemoveHelper(t.root, toLowerCase(word), 0)
    IN [root |-> r.node, wordCount |-> t.wordCount - r.removed]

\* remove starts with word.toLowerCase(), which raises a TypeError when word is
\* null or undefined
FreqRemoveThrows(word) == word = Undefined

\* the node a prefix leads to, as Some(node), or Null when a character has no child
RECURSIVE FreqNavigate(_, _, _)
FreqNavigate(node, prefix, i) ==
    IF i > Len(prefix) THEN Some(node)
    ELSE IF ~MapHas(node.children, prefix[i]) THEN Null
    ELSE FreqNavigate(MapGet(node.children, prefix[i]), prefix, i + 1)

\* _collectWords; its prefix argument is never read and is left out
RECURSIVE FreqCollectWords(_, _, _, _)
RECURSIVE FreqCollectChildren(_, _, _, _, _)
\* _collectWords returning as soon as it has pushed the node's own word
FreqCollectWords_StopAtWord(node, results, limit, excludeWord) ==
    IF Len(results) >= limit THEN results
    ELSE IF node.isWord /\ node.word # excludeWord
         THEN Append(results, [word |-> node.word[1], frequency |-> node.frequency])
    ELSE FreqCollectChildren(node.children, 1, results, limit, excludeWord)

FreqCollectWords(node, results, limit, excludeWord) ==
    IF Len(results) >= limit THEN results
    ELSE LET r1 == IF node.isWord /\ node.word # excludeWord
                   THEN Append(results, [word |-> node.word[1],
                                         frequency |-> node.frequency])
                   ELSE results
         IN FreqCollectChildren(node.children, 1, r1, limit, excludeWord)

FreqCollectChildren(children, i, results, limit, excludeWord) ==
    IF i > Len(children) \/ Len(results) >= limit THEN results
    ELSE FreqCollectChildren(children, i + 1,
             FreqCollectWords(children[i].value, results, limit, excludeWord),
             limit, excludeWord)

\* the comparator of search: frequency descending, then alphabetically
FreqBefore(a, b) ==
    IF b.frequency # a.frequency THEN b.frequency < a.frequency
    ELSE localeLess(a.word, b.word)

\* search cutting the sorted results one short: slice(0, limit - 1)
FreqSearch_SliceShort(t, prefix, limit, excludeWord) ==
    IF Falsy(prefix) THEN <<>>
    ELSE LET p == toLowerCase(prefix)
             n == FreqNavigate(t.root, p, 1)
         IN IF n = Null THEN <<>>
            ELSE LET results == FreqCollectWords(n[1], <<>>, limit, excludeWord)
                     sorted  == StableSort(results,
                                    [i \in DOMAIN results |-> [j \in DOMAIN results |->
                                        FreqBefore(results[i], results[j])]])
                     top     == slice0(sorted, limit - 1)
                 IN [i \in DOMAIN top |-> top[i].word]

FreqSearch(t, prefix, limit, excludeWord) ==
    IF Falsy(prefix) THEN <<>>
    ELSE LET p == toLowerCase(prefix)
             n == FreqNavigate(t.root, p, 1)
         IN IF n = Null THEN <<>>
            ELSE LET results == FreqCollectWords(n[1], <<>>, limit, excludeWord)
                     sorted  == StableSort(results,
                                    [i \in DOMAIN results |-> [j \in DOMAIN results |->
                                        FreqBefore(results[i], results[j])]])
                     top     == slice0(sorted, limit)
                 IN [i \in DOMAIN top |-> top[i].word]

\* matches.forEach of fuzzySearch from the i-th match on: a word that is not a
\* key of results is set with score 50
RECURSIVE FuzzyAddMatches(_, _, _)
FuzzyAddMatches(results, matches, i) ==
    IF i > Len(matches) THEN results
    ELSE FuzzyAddMatches(
             IF MapHas(results, matches[i]) THEN results
             ELSE MapSet(results, matches[i], [word |-> matches[i], score |-> 50]),
             matches, i + 1)

\* the two for loops of fuzzySearch (lines 519-539) from position i of the
\* prefix and the c-th letter on.  The source tries the letters a to z; a trie
\* over the letters of Alphabet has no child for any other letter, so search of
\* a variant with another letter returns [] and leaves results as it is
RECURSIVE FuzzyVariants(_, _, _, _, _, _, _)
FuzzyVariants(t, prefix, i, c, results, limit, excludeWord) ==
    IF i > Len(prefix) THEN results
    ELSE IF c > Len(Alphabet)
         THEN IF Len(results) >= limit * 2 THEN results
              ELSE FuzzyVariants(t, prefix, i + 1, 1, results, limit, excludeWord)
    ELSE IF Alphabet[c] = prefix[i]
         THEN FuzzyVariants(t, prefix, i, c + 1, results, limit, excludeWord)
    ELSE LET variant == [prefix EXCEPT ![i] = Alphabet[c]]
             matches == FreqSearch(t, variant, 5, excludeWord)
             r2      == FuzzyAddMatches(results, matches, 1)
         IN IF Len(r2) >= limit * 2 THEN r2
            ELSE FuzzyVariants(t, prefix, i, c + 1, r2, limit, excludeWord)

\* the end of fuzzySearch without slice(0, limit)
FuzzyTop_NoSlice(results, limit) ==
    LET values == [i \in DOMAIN results |-> results[i].value]
        sorted == StableSort(values,
                      [i \in DOMAIN values |-> [j \in DOMAIN values |->
                          values[j].score < values[i].score]])
    IN [i \in DOMAIN sorted |-> sorted[i].word]

\* Array.from(results.values()).sort((a, b) => b.score - a.score)
\*     .slice(0, limit).map(r => r.word)
FuzzyTop(results, limit) ==
    LET values == [i \in DOMAIN results |-> results[i].value]
        sorted == StableSort(values,
                      [i \in DOMAIN values |-> [j \in DOMAIN values |->
                          values[j].score < values[i].score]])
        top    == slice0(sorted, limit)
    IN [i \in DOMAIN top |-> top[i].word]

\* fuzzySearch of the frequency Trie
FreqFuzzySearch(t, word, limit, excludeWord) ==
    IF Falsy(word) \/ Len(word) < 3 THEN FreqSearch(t, word, limit, excludeWord)
    ELSE LET prefix  == toLowerCase(word)
             exact   == FreqSearch(t, prefix, limit, excludeWord)
             results == [i \in DOMAIN exact |->
                            [key |-> exact[i],
                             value |-> [word |-> exact[i], score |-> 100]]]
         IN IF Len(results) >= limit THEN FuzzyTop(results, limit)
            ELSE FuzzyTop(FuzzyVariants(t, prefix, 1, 1, results, limit, excludeWord),
                          limit)

----------------------------------------------------------------------------
(* The Trie of src/unnamed/part_000 *)

TrieNode == [children |-> <<>>, isWord |-> FALSE]

\* the loop of insert from position i on, and line 28 at the end of the path
RECURSIVE InsertWalk(_, _, _)
InsertWalk(node, word, i) ==
    IF i > Len(word) THEN [node EXCEPT !.isWord = TRUE]
    ELSE LET ch    == word[i]
             child == IF MapHas(node.children, ch)
                      THEN MapGet(node.children, ch) ELSE TrieNode
         IN [node EXCEPT !.children = MapSet(@, ch, InsertWalk(child, word, i + 1))]

\* insert without word.toLowerCase()
Insert_NoLower(root, word) ==
    IF Falsy(word) THEN root ELSE InsertWalk(root, word, 1)

Insert(root, word) ==
    IF Falsy(word) THEN root ELSE InsertWalk(root, toLowerCase(word), 1)

\* the node a prefix leads to, as Some(node), or Null when a character has no child
RECURSIVE Navigate(_, _, _)
Navigate(node, prefix, i) ==
    IF i > Len(prefix) THEN Some(node)
    ELSE IF ~MapHas(node.children, prefix[i]) THEN Null
    ELSE Navigate(MapGet(node.children, prefix[i]), prefix, i + 1)

\* _collect: the children are visited in the Map's own (insertion) order
RECURSIVE Collect(_, _, _, _)
RECURSIVE CollectChildren(_, _, _, _, _)
Collect(node, prefix, results, limit) ==
    IF Len(results) >= limit THEN results
    ELSE CollectChildren(node.children, 1, prefix,
             IF node.isWord THEN Append(results, prefix) ELSE results, limit)

CollectChildren(children, i, prefix, results, limit) ==
    IF i > Len(children) \/ Len(results) >= limit THEN results
    ELSE CollectChildren(children, i + 1, prefix,
             Collect(children[i].value, Append(prefix, children[i].key), results, limit),
             limit)

\* search without prefix.toLowerCase()
Search_NoLower(root, prefix, limit) ==
    IF Falsy(prefix) THEN <<>>
    ELSE LET n == Navigate(root, prefix, 1)
         IN IF n = Null THEN <<>> ELSE Collect(n[1], prefix, <<>>, limit)

Search(root, prefix, limit) ==
    IF Falsy(prefix) THEN <<>>
    ELSE LET lower == toLowerCase(prefix)
             n     == Navigate(root, lower, 1)
         IN IF n = Null THEN <<>> ELSE Collect(n[1], lower, <<>>, limit)

Min2(a, b) == IF a <= b THEN a ELSE b

\* lines 65-75 of _fuzzyDfs: the value of currRow[j] for j >= 1, given
\* left = currRow[j - 1].  j counts from 0 as in the source; rows and query are
\* 1-based here, so query[j - 1] of the source is query[j], prevRow[j] is
\* prevRow[j + 1] and prevPrevRow[j - 2] is prevPrevRow[j - 1]
\* the transposition without its cost: prevPrevRow[j - 2] instead of + 1
Cell_FreeTransposition(j, left, ch, prevChar, query, prevRow, prevPrevRow) ==
    LET cost == IF query[j] = ch THEN 0 ELSE 1
        a    == left + 1
        b    == prevRow[j + 1] + 1
        c    == prevRow[j] + cost
        val  == Min2(Min2(a, b), c)
    IN IF prevPrevRow # Null /\ j > 1 /\ ch = query[j - 1] /\ prevChar = query[j]
       THEN Min2(val, prevPrevRow[j - 1])
       ELSE val

Cell(j, left, ch, prevChar, query, prevRow, prevPrevRow) ==
    LET cost == IF query[j] = ch THEN 0 ELSE 1
        a    == left + 1
        b    == prevRow[j + 1] + 1
        c    == prevRow[j] + cost
        val  == Min2(Min2(a, b), c)
    IN IF prevPrevRow # Null /\ j > 1 /\ ch = query[j - 1] /\ prevChar = query[j]
       THEN Min2(val, prevPrevRow[j - 1] + 1)
       ELSE val

\* the for loop of lines 64-79 from j = Len(currRow) on
RECURSIVE FillRow(_, _, _, _, _, _)
FillRow(currRow, ch, prevChar, query, prevRow, prevPrevRow) ==
    IF Len(currRow) >= Len(prevRow) THEN currRow
    ELSE LET j   == Len(currRow)
             val == Cell(j, currRow[j], ch, prevChar, query, prevRow, prevPrevRow)
         IN FillRow(Append(currRow, val), ch, prevChar, query, prevRow, prevPrevRow)

\* lines 61-79: the row of the child reached by ch
CurrRow(ch, prevChar, query, prevRow, prevPrevRow) ==
    FillRow(<<prevRow[1] + 1>>, ch, prevChar, query, prevRow, prevPrevRow)

\* rowMin of _fuzzyDfs
\* pruning on the last entry of the row instead of its minimum
RowMin_LastEntry(row) == row[Len(row)]

RowMin(row) == CHOOSE m \in Range(row) : \A v \in Range(row) : m <= v

\* lines 86-89: the candidate buffer is sorted by distance and cut to 2 * limit
Compact(results, limit) ==
    IF Len(results) > limit * 4
    THEN SubSeq(StableSort(results,
                    [i \in DOMAIN results |-> [j \in DOMAIN results |->
                        results[i].dist < results[j].dist]]),
                1, limit * 2)
    ELSE results

\* _fuzzyDfs is FuzzyDfsFrom at the first child; FuzzyDfsFrom is the for loop
\* from the i-th entry of node.children on
RECURSIVE FuzzyDfsFrom(_, _, _, _, _, _, _, _, _, _)
FuzzyDfsFrom(i, node, prefix, prevChar, query, prevRow, prevPrevRow, maxEdits, results, limit) ==
    IF i > Len(node.children) THEN results
    ELSE LET ch        == node.children[i].key
             child     == node.children[i].value
             currRow   == CurrRow(ch, prevChar, query, prevRow, prevPrevRow)
             rowMin    == RowMin(currRow)
             newPrefix == Append(prefix, ch)
             dist      == currRow[Len(currRow)]
             r1        == IF child.isWord /\ dist <= maxEdits
                          THEN Compact(Append(results,
                                   [word |-> newPrefix, dist |-> dist]), limit)
                          ELSE results
             r2        == IF rowMin <= maxEdits
                          THEN FuzzyDfsFrom(1, child, newPrefix, ch, query, currRow,
                                            prevRow, maxEdits, r1, limit)
                          ELSE r1
         IN FuzzyDfsFrom(i + 1, node, prefix, prevChar, query, prevRow, prevPrevRow,
                         maxEdits, r2, limit)

FuzzyDfs(node, prefix, prevChar, query, prevRow, prevPrevRow, maxEdits, results, limit) ==
    FuzzyDfsFrom(1, node, prefix, prevChar, query, prevRow, prevPrevRow, maxEdits,
                 results, limit)

\* the comparator of searchFuzzy: distance ascending, then localeCompare
\* the comparator without its localeCompare tie-break
FuzzyBefore_DistOnly(a, b) == a.dist < b.dist

FuzzyBefore(a, b) ==
    IF a.dist # b.dist THEN a.dist < b.dist ELSE localeLess(a.word, b.word)

SearchFuzzy(root, term, maxEdits, limit) ==
    IF Falsy(term) THEN <<>>
    ELSE LET query    == toLowerCase(term)
             cols     == Len(query) + 1
             firstRow == [i \in 1..cols |-> i - 1]
             results  == FuzzyDfs(root, <<>>, "", query, firstRow, Null, maxEdits,
                                  <<>>, limit)
             sorted   == StableSort(results,
                             [i \in DOMAIN results |-> [j \in DOMAIN results |->
                                 FuzzyBefore(results[i], results[j])]])
         IN slice0(sorted, limit)

----------------------------------------------------------------------------
(* The plugin of src/unnamed/part_000: getSuggestions and matchCase *)

\* the for loop of getSuggestions from the i-th fuzzy entry on
RECURSIVE MergeFuzzy(_, _, _, _, _, _)
\* the loop without its test of seen: a fuzzy word is pushed even if it is there
MergeFuzzy_NoSeen(exact, seen, fuzzy, i, prefix, limit) ==
    IF i > Len(fuzzy) THEN exact
    ELSE LET word  == fuzzy[i].word
             lower == toLowerCase(word)
         IN IF lower # toLowerCase(prefix)
            THEN IF Len(exact) + 1 >= limit THEN Append(exact, word)
                 ELSE MergeFuzzy(Append(exact, word), seen \cup {lower}, fuzzy, i + 1,
                                 prefix, limit)
            ELSE MergeFuzzy(exact, seen, fuzzy, i + 1, prefix, limit)

MergeFuzzy(exact, seen, fuzzy, i, prefix, limit) ==
    IF i > Len(fuzzy) THEN exact
    ELSE LET word  == fuzzy[i].word
             lower == toLowerCase(word)
         IN IF lower \notin seen /\ lower # toLowerCase(prefix)
            THEN IF Len(exact) + 1 >= limit THEN Append(exact, word)
                 ELSE MergeFuzzy(Append(exact, word), seen \cup {lower}, fuzzy, i + 1,
                                 prefix, limit)
            ELSE MergeFuzzy(exact, seen, fuzzy, i + 1, prefix, limit)

\* the edit budget as a function of the length of the query: 1 up to length 4,
\* 2 up to length 8, 3 beyond
PolicyBudget(n) == IF n <= 4 THEN 1 ELSE IF n <= 8 THEN 2 ELSE 3

\* getSuggestions returning exact without slice(0, limit)
GetSuggestions_NoSlice(root, prefix, maxSuggestions, fuzzyEdits) ==
    LET limit  == maxSuggestions
        exact  == Search(root, prefix, limit * 2)
    IN IF Len(exact) < limit
       THEN MergeFuzzy(exact, {toLowerCase(exact[i]) : i \in DOMAIN exact},
                       SearchFuzzy(root, prefix, fuzzyEdits, limit * 3),
                       1, prefix, limit)
       ELSE exact

\* getSuggestions passing a budget computed from the length of the prefix
GetSuggestions_LengthBudget(root, prefix, maxSuggestions, fuzzyEdits) ==
    LET limit  == maxSuggestions
        exact  == Search(root, prefix, limit * 2)
        merged == IF Len(exact) < limit
                  THEN MergeFuzzy(exact, {toLowerCase(exact[i]) : i \in DOMAIN exact},
                                  SearchFuzzy(root, prefix, PolicyBudget(Len(prefix)),
                                              limit * 3),
                                  1, prefix, limit)
                  ELSE exact
    IN slice0(merged, limit)

GetSuggestions(root, prefix, maxSuggestions, fuzzyEdits) ==
    LET limit  == maxSuggestions
        exact  == Search(root, prefix, limit * 2)
        merged == IF Len(exact) < limit
                  THEN MergeFuzzy(exact, {toLowerCase(exact[i]) : i \in DOMAIN exact},
                                  SearchFuzzy(root, prefix, fuzzyEdits, limit * 3),
                                  1, prefix, limit)
                  ELSE exact
    IN slice0(merged, limit)

\* matchCase keeping the rest of the word as it is: word.slice(1) without
\* toLowerCase()
MatchCase_KeepRest(word, original) ==
    IF Falsy(original) THEN word
    ELSE IF original = toUpperCase(original) THEN toUpperCase(word)
    ELSE IF original[1] = UpperChar(original[1])
         THEN <<UpperChar(word[1])>> \o Tail(word)
    ELSE toLowerCase(word)

\* matchCase for a non-empty word
MatchCase(word, original) ==
    IF Falsy(original) THEN word
    ELSE IF original = toUpperCase(original) THEN toUpperCase(word)
    ELSE IF original[1] = UpperChar(original[1])
         THEN <<UpperChar(word[1])>> \o toLowerCase(Tail(word))
    ELSE toLowerCase(word)

----------------------------------------------------------------------------
(* The sorted Trie of src/main.js *)

\* insert of lines 19-30; the nodes are those of part_000's Trie
SortedInsert(root, word) ==
    IF Falsy(word) \/ Len(word) < 2 THEN root
    ELSE InsertWalk(root, toLowerCase(word), 1)

\* Array.from(node.children.keys()).sort(): the keys in ascending order
SortedKeys(children) ==
    LET keys == [i \in DOMAIN children |-> children[i].key]
    IN StableSort(keys, [i \in DOMAIN keys |-> [j \in DOMAIN keys |->
                      CharRank(keys[i]) < CharRank(keys[j])]])

RECURSIVE SortedCollect(_, _, _, _)
RECURSIVE SortedCollectChars(_, _, _, _, _, _)
SortedCollect(node, prefix, results, limit) ==
    IF Len(results) >= limit THEN results
    ELSE SortedCollectChars(node, SortedKeys(node.children), 1, prefix,
             IF node.isWord THEN Append(results, prefix) ELSE results, limit)

SortedCollectChars(node, chars, i, prefix, results, limit) ==
    IF i > Len(chars) \/ Len(results) >= limit THEN results
    ELSE SortedCollectChars(node, chars, i + 1, prefix,
             SortedCollect(MapGet(node.children, chars[i]), Append(prefix, chars[i]),
                           results, limit),
             limit)

SortedSearch(root, prefix, limit) ==
    IF Falsy(prefix) THEN <<>>
    ELSE LET p == toLowerCase(prefix)
             n == Navigate(root, p, 1)
         IN IF n = Null THEN <<>> ELSE SortedCollect(n[1], p, <<>>, limit)

\* matchCase of the plugin that owns the sorted Trie (main.js 280-286), for a
\* non-empty word and a non-empty original
SortedMatchCase(word, original) ==
    IF original = toUpperCase(original) THEN toUpperCase(word)
    ELSE IF original[1] = UpperChar(original[1])
         THEN <<UpperChar(word[1])>> \o toLowerCase(Tail(word))
    ELSE toLowerCase(word)

\* matchCase of the plugin that owns the frequency Trie (main.js 972-980), for a
\* non-empty suggestion and a non-empty original
FreqMatchCase(suggestion, original) ==
    IF original = toUpperCase(original) THEN toUpperCase(suggestion)
    ELSE IF original[1] = UpperChar(original[1])
         THEN <<UpperChar(suggestion[1])>> \o toLowerCase(Tail(suggestion))
    ELSE toLowerCase(suggestion)

\* DEFAULT_SETTINGS of the three plugins, with the fields the model reads
DefaultSettings == [enabled |-> TRUE, maxSuggestions |-> 5, minLength |-> 3, addSpace |-> TRUE, fuzzyEdits |-> 2]

SortedDefaultSettings == [enabled |-> TRUE, maxSuggestions |-> 5, minLength |-> 3, addSpace |-> TRUE]

FreqDefaultSettings == [enabled |-> TRUE, maxSuggestions |-> 5, minWordLength |-> 3, addSpace |-> TRUE, fuzzyMatch |-> FALSE, learnFromDocument |-> TRUE, customWords |-> <<>>, excludeWords |-> <<>>, caseSensitive |-> FALSE]

\* the AutocompleteUI of main.js as constructed: no dropdown.  visible stands
\* for dropdown !== null, which is isVisible in the plugin of the frequency Trie
AutocompleteUI == [visible |-> FALSE, suggestions |-> <<>>, selectedIndex |-> 0, wordStart |-> 0, currentWord |-> <<>>]

\* String.prototype.trim: the string without its leading and trailing blanks
RECURSIVE trimStart(_)
trimStart(s) == IF s # <<>> /\ s[1] = " " THEN trimStart(Tail(s)) ELSE s

RECURSIVE trimEnd(_)
trimEnd(s) == IF s # <<>> /\ s[Len(s)] = " " THEN trimEnd(SubSeq(s, 1, Len(s) - 1)) ELSE s

trim(s) == trimEnd(trimStart(s))

\* Array.prototype.splice(index, 1), index counting from 0 as in the source
splice1(arr, index) == SubSeq(arr, 1, index) \o SubSeq(arr, index + 2, Len(arr))

\* Array.prototype.indexOf: the first position of x counting from 0, or -1
indexOf(arr, x) ==
    IF x \notin Range(arr) THEN -1
    ELSE (CHOOSE i \in DOMAIN arr : arr[i] = x /\ \A j \in 1..(i - 1) : arr[j] # x) - 1

\* addCustomWord on settings.customWords and the trie; saveSettings writes the
\* settings to disk and changes neither
\* addCustomWord without its test of customWords.includes(word)
AddCustomWord_NoIncludes(customWords, t, word) ==
    LET w == trim(word)
    IN IF Falsy(w) THEN [customWords |-> customWords, trie |-> t]
       ELSE [customWords |-> Append(customWords, w), trie |-> FreqInsert(t, w, 5)]

AddCustomWord(customWords, t, word) ==
    LET w == trim(word)
    IN IF Falsy(w) \/ w \in Range(customWords)
       THEN [customWords |-> customWords, trie |-> t]
       ELSE [customWords |-> Append(customWords, w), trie |-> FreqInsert(t, w, 5)]

\* removeCustomWord on settings.customWords and the trie
RemoveCustomWord(customWords, t, word) ==
    LET index == indexOf(customWords, word)
    IN IF index = -1 THEN [customWords |-> customWords, trie |-> t]
       ELSE [customWords |-> splice1(customWords, index), trie |-> FreqRemove(t, word)]

\* customWords.forEach(word => trie.remove(word)) of the 'Clear All' button,
\* from the i-th word on
RECURSIVE RemoveEach(_, _, _)
RemoveEach(customWords, t, i) ==
    IF i > Len(customWords) THEN t
    ELSE RemoveEach(customWords, FreqRemove(t, customWords[i]), i + 1)

\* onClick of the 'Clear All' button on settings.customWords and the trie
ClearAll(customWords, t) == [customWords |-> <<>>, trie |-> RemoveEach(customWords, t, 1)]

\* [...new Set(s)]: the elements of s in the order of their first occurrence
RECURSIVE Unique(_)
Unique(s) ==
    IF s = <<>> THEN <<>>
    ELSE LET r == Unique(SubSeq(s, 1, Len(s) - 1))
         IN IF s[Len(s)] \in Range(r) THEN r ELSE Append(r, s[Len(s)])

\* getSuggestions of the plugin that owns the frequency Trie, for a non-empty
\* word; cfg is this.settings and docWords is the Set this.documentWords as the
\* list of its elements in insertion order
FreqGetSuggestions(t, word, cfg, docWords) ==
    LET lowerWord    == toLowerCase(word)
        excludeWords == {lowerWord} \cup {toLowerCase(cfg.excludeWords[i]) :
                                             i \in DOMAIN cfg.excludeWords}
        found        == IF cfg.fuzzyMatch
                        THEN FreqFuzzySearch(t, word, cfg.maxSuggestions * 2,
                                             Some(lowerWord))
                        ELSE FreqSearch(t, word, cfg.maxSuggestions * 2,
                                        Some(lowerWord))
        kept         == SelectSeq(found, LAMBDA s : toLowerCase(s) \notin excludeWords)
        docSuggestions == slice0(SelectSeq(docWords, LAMBDA w :
                                     /\ startsWith(toLowerCase(w), lowerWord)
                                     /\ toLowerCase(w) \notin excludeWords
                                     /\ Len(w) >= cfg.minWordLength), 3)
        merged       == IF cfg.learnFromDocument
                        THEN Unique(docSuggestions \o kept) ELSE kept
        cased        == IF ~cfg.caseSensitive
                        THEN [i \in DOMAIN merged |-> FreqMatchCase(merged[i], word)]
                        ELSE merged
    IN slice0(cased, cfg.maxSuggestions)

\* String.prototype.split with a separator of one character
RECURSIVE split(_, _)
split(s, sep) ==
    IF \A i \in DOMAIN s : s[i] # sep THEN <<s>>
    ELSE LET i == CHOOSE k \in DOMAIN s : s[k] = sep /\ \A j \in 1..(k - 1) : s[j] # sep
         IN <<SubSeq(s, 1, i - 1)>> \o split(SubSeq(s, i + 1, Len(s)), sep)

\* the loop of loadDictionary of part_000 from the i-th line on: each line is
\* trimmed and inserted unless it is empty
RECURSIVE InsertLines(_, _, _)
InsertLines(root, lines, i) ==
    IF i > Len(lines) THEN root
    ELSE InsertLines(IF trim(lines[i]) # <<>> THEN Insert(root, trim(lines[i])) ELSE root,
                     lines, i + 1)

\* the same loop in the plugin that owns the sorted Trie
RECURSIVE SortedInsertLines(_, _, _)
SortedInsertLines(root, lines, i) ==
    IF i > Len(lines) THEN root
    ELSE SortedInsertLines(IF trim(lines[i]) # <<>> THEN SortedInsert(root, trim(lines[i]))
                           ELSE root,
                           lines, i + 1)

\* words.forEach of loadDictionary in the plugin that owns the frequency Trie
RECURSIVE FreqInsertWords(_, _, _, _)
FreqInsertWords(t, words, i, frequency) ==
    IF i > Len(words) THEN t
    ELSE FreqInsertWords(FreqInsert(t, words[i], frequency), words, i + 1, frequency)

\* what adapter.read (and, in the plugin of the frequency Trie, adapter.exists)
\* does: it raises an error, finds no file, or returns the content of the file
ReadFails == [outcome |-> "fails", content |-> <<>>]

ReadMissing == [outcome |-> "missing", content |-> <<>>]

ReadReturns(content) == [outcome |-> "content", content |-> content]

\* loadDictionary inserting a fallback word in its catch clause
LoadDictionary_Fallback(root, read) ==
    IF read.outcome # "content" THEN Insert(root, <<"a", "b">>)
    ELSE InsertLines(root, split(read.content, "\n"), 1)

\* loadDictionary of part_000 on the trie: the catch clause logs the error of a
\* failed read and returns
LoadDictionary(root, read) ==
    IF read.outcome # "content" THEN root
    ELSE InsertLines(root, split(read.content, "\n"), 1)

\* loadDictionary of the plugin that owns the sorted Trie
SortedLoadDictionary(root, read) ==
    IF read.outcome # "content" THEN root
    ELSE SortedInsertLines(root, split(read.content, "\n"), 1)

\* loadDictionary of the plugin that owns the frequency Trie: the custom words
\* are inserted before the file is looked for
FreqLoadCustomWords(t, customWords) == FreqInsertWords(t, customWords, 1, 5)

\* the try block of that loadDictionary, on the trie that holds the custom words
FreqLoadFile(t, read) ==
    IF read.outcome # "content" THEN t
    ELSE LET lines == split(read.content, "\n")
             words == SelectSeq(lines, LAMBDA w : Len(trim(w)) > 0)
         IN FreqInsertWords(t, [i \in DOMAIN words |-> trim(words[i])], 1, 1)

FreqLoadDictionary(t, customWords, read) ==
    FreqLoadFile(FreqLoadCustomWords(t, customWords), read)

\* The line of the editor the cursor is in: the text before the cursor and the
\* text after it.  A position is a number of characters from the start.
EmptyLine == [before |-> <<>>, after |-> <<>>]

\* [a-zA-Z] and \p{L} on the characters of the model
IsLetter(c) == \E i \in DOMAIN Alphabet : Alphabet[i] = LowerChar(c)

\* before.match(/[a-zA-Z][a-zA-Z0-9']*$/): the word that ends at the cursor,
\* empty when there is no match
RECURSIVE WordBefore(_)
WordBefore(before) ==
    IF before = <<>> \/ ~IsLetter(before[Len(before)]) THEN <<>>
    ELSE Append(WordBefore(SubSeq(before, 1, Len(before) - 1)), before[Len(before)])

\* /^[a-zA-Z0-9]/.test(after): the cursor is in the middle of a word
MidWord(after) == after # <<>> /\ IsLetter(after[1])

\* editor.replaceRange(text, from, editor.getCursor()); the cursor ends after
\* the replacement
ReplaceRange(line, text, from) == [line EXCEPT !.before = SubSeq(@, 1, from) \o text]

\* hide() of the AutocompleteUI of the plugin that owns the sorted Trie
Hide(u) == [u EXCEPT !.visible = FALSE, !.suggestions = <<>>]

\* show() of that class
Show(u, suggestions, wordStart, currentWord) ==
    IF suggestions = <<>> THEN Hide(u)
    ELSE [visible |-> TRUE, suggestions |-> suggestions, selectedIndex |-> 0,
          wordStart |-> wordStart, currentWord |-> currentWord]

\* move() of that class, and moveSelection() of the other AutocompleteUI
Move(u, direction) ==
    LET max == Len(u.suggestions)
    IN [u EXCEPT !.selectedIndex = IF direction = "down" THEN (@ + 1) % max
                                   ELSE (@ - 1 + max) % max]

\* destroy() of the AutocompleteUI of the plugin that owns the frequency Trie
Destroy(u) == [u EXCEPT !.visible = FALSE, !.suggestions = <<>>, !.selectedIndex = 0]

\* show() of that class
FreqShow(u, suggestions, wordStart, currentWord) ==
    IF suggestions = <<>> THEN Destroy(u)
    ELSE [visible |-> TRUE, suggestions |-> suggestions, selectedIndex |-> 0,
          wordStart |-> wordStart, currentWord |-> currentWord]

\* getSuggestions of the plugin that owns the sorted Trie
SortedGetSuggestions(root, word, cfg) ==
    LET found == SortedSearch(root, word, cfg.maxSuggestions)
    IN [i \in DOMAIN found |-> SortedMatchCase(found[i], word)]

\* the word process() and processSuggestions() pass to getSuggestions, Null
\* where they return before the call
ProcessWord(line, minLength) ==
    IF MidWord(line.after) \/ WordBefore(line.before) = <<>> THEN Null
    ELSE IF Len(WordBefore(line.before)) < minLength THEN Null
    ELSE Some(WordBefore(line.before))

\* process() of the plugin that owns the sorted Trie, on the dropdown
Process(root, cfg, u, line) ==
    LET word == ProcessWord(line, cfg.minLength)
    IN IF word = Null THEN Hide(u)
       ELSE Show(u, SortedGetSuggestions(root, word[1], cfg),
                 Len(line.before) - Len(word[1]), word[1])

\* processSuggestions() of the plugin that owns the frequency Trie
ProcessSuggestions(t, cfg, docWords, u, line) ==
    LET word == ProcessWord(line, cfg.minWordLength)
    IN IF word = Null THEN Destroy(u)
       ELSE FreqShow(u, FreqGetSuggestions(t, word[1], cfg, docWords),
                     Len(line.before) - Len(word[1]), word[1])

\* learnWord of that plugin: documentWords is a Set
LearnWord(docWords, cfg, word) ==
    IF cfg.learnFromDocument /\ Len(word) >= cfg.minWordLength /\ indexOf(docWords, word) = -1
    THEN Append(docWords, word)
    ELSE docWords

\* the callback of map in updateSuggestions of part_000: the ghost text of one
\* word, Null where the callback returns null
GhostSuggestion(word, prefix, cursorPos, wordStart) ==
    LET wordLower == toLowerCase(word)
        prefixLower == toLowerCase(prefix)
        matched == MatchCase(word, prefix)
    IN IF startsWith(wordLower, prefixLower) /\ Len(word) > Len(prefix)
       THEN Some([text |-> SubSeq(matched, Len(prefix) + 1, Len(matched)),
                  isFuzzy |-> FALSE, wordStart |-> cursorPos])
       ELSE IF wordLower # prefixLower
       THEN Some([text |-> matched, isFuzzy |-> TRUE, wordStart |-> wordStart])
       ELSE Null

\* words.map(...).filter(Boolean) in updateSuggestions, from the i-th word on
RECURSIVE GhostSuggestions(_, _, _, _, _)
GhostSuggestions(words, i, prefix, cursorPos, wordStart) ==
    IF i > Len(words) THEN <<>>
    ELSE GhostSuggestion(words[i], prefix, cursorPos, wordStart)
         \o GhostSuggestions(words, i + 1, prefix, cursorPos, wordStart)

\* updateSuggestions of part_000 on the GhostTextState field: the transaction
\* carries a SetSuggestionsEffect when there is a suggestion
UpdateSuggestions(root, cfg, ghost, prefix, cursorPos, wordStart) ==
    LET words == GetSuggestions(root, prefix, cfg.maxSuggestions, cfg.fuzzyEdits)
        suggestions == GhostSuggestions(words, 1, prefix, cursorPos, wordStart)
    IN IF Len(suggestions) > 0
       THEN Some([suggestions |-> suggestions, currentIndex |-> 0, cursorPos |-> cursorPos])
       ELSE ghost

\* GhostTextState.update for a transaction that changes the document and has
\* no effect: the field is cleared unless the cursor is where the ghost text is
AutoClear(ghost, head) ==
    IF ghost # Null /\ head # ghost[1].cursorPos THEN Null ELSE ghost

\* a CycleSuggestionEffect applied without the wrap-around
Cycle_NoWrap(ghost, step) ==
    LET n == Len(ghost[1].suggestions)
    IN IF n > 1 THEN Some([ghost[1] EXCEPT !.currentIndex = @ + step]) ELSE ghost

\* GhostTextState.update for a CycleSuggestionEffect
Cycle(ghost, step) ==
    LET n == Len(ghost[1].suggestions)
    IN IF n > 1 THEN Some([ghost[1] EXCEPT !.currentIndex = (@ + step + n) % n]) ELSE ghost

\* the arguments the change listener of part_000 binds in the timeout it sets
\* for a typed character, Null where it returns before setTimeout
ListenerTimeout(cfg, line) ==
    LET word == WordBefore(line.before)
        pos == Len(line.before)
    IN IF ~cfg.enabled \/ MidWord(line.after) \/ word = <<>> THEN Null
       ELSE IF Len(word) < cfg.minLength THEN Null
       ELSE Some([prefix |-> word, cursorPos |-> pos, wordStart |-> pos - Len(word)])

\* view.dispatch({changes: {from, to, insert}, selection: {anchor: from +
\* insert.length}}) of the key handler of part_000
DispatchChanges(line, from, to, insert) ==
    LET text == line.before \o line.after
    IN [before |-> SubSeq(text, 1, from) \o insert, after |-> SubSeq(text, to + 1, Len(text))]

\* the AutocompleteUI of the plugin that owns the frequency Trie, with the
\* dropdown element as a field of its own: Null, or the number of its items
DropdownUI == [dropdown |-> Null, selectedIndex |-> 0, suggestions |-> <<>>, currentWord |-> <<>>, wordStart |-> Null, isVisible |-> FALSE]

\* destroy() of that class
destroy(u) == [u EXCEPT !.dropdown = Null, !.isVisible = FALSE, !.suggestions = <<>>, !.selectedIndex = 0]

\* show() of that class; createDropdown makes one item for each suggestion
show(u, suggestions, wordStart, currentWord) ==
    IF suggestions = Undefined \/ Len(suggestions) = 0 THEN destroy(u)
    ELSE [dropdown |-> Some(Len(suggestions)), selectedIndex |-> 0,
          suggestions |-> suggestions, currentWord |-> currentWord,
          wordStart |-> Some(wordStart), isVisible |-> TRUE]

\* setSelected() of that class
setSelected(u, index) ==
    IF u.dropdown = Null THEN u ELSE [u EXCEPT !.selectedIndex = index]

\* moveSelection() that adds the step and does not wrap around
moveSelection_NoWrap(u, direction) ==
    IF ~u.isVisible \/ Len(u.suggestions) = 0 THEN u
    ELSE LET index == CASE direction = "down" -> u.selectedIndex + 1
                        [] direction = "up" -> u.selectedIndex - 1
                        [] OTHER -> u.selectedIndex
         IN setSelected([u EXCEPT !.selectedIndex = index], index)

\* moveSelection() of that class
moveSelection(u, direction) ==
    IF ~u.isVisible \/ Len(u.suggestions) = 0 THEN u
    ELSE LET length == Len(u.suggestions)
             index == CASE direction = "down" -> (u.selectedIndex + 1) % length
                        [] direction = "up" -> (u.selectedIndex - 1 + length) % length
                        [] OTHER -> u.selectedIndex
         IN setSelected([u EXCEPT !.selectedIndex = index], index)

----------------------------------------------------------------------------
(* Calls.  A behaviour drives one Trie class: it makes mutating calls (insert,  *)
(* remove) and ends with at most one query.  last and pre record the last call *)
(* and the trie it was made on.                                                *)

NoCall == [op |-> "none", word |-> <<>>, original |-> <<>>, frequency |-> 0, limit |-> 0, maxEdits |-> 0, excludeWord |-> <<>>, key |-> "", shiftKey |-> FALSE, read |-> Null, settings |-> <<>>, documentWords |-> <<>>, result |-> <<>>, thrown |-> FALSE]

QueryOps == {"search", "searchFuzzy", "fuzzySearch", "getSuggestions", "matchCase"}

\* no query has been made yet
Mutable == last.op \notin QueryOps

\* the frequencies insert is called with: 1 (a dictionary word, an accepted
\* suggestion) and 5 (a custom word)
Frequencies == {1, 5}

\* settings.customWords: the words that are inserted with frequency 5
CustomWords == {<<"a", "b">>, <<"b", "a", "b">>}

\* the limits a query is made with: the smallest and the largest
Limits == {1, MaxLimit}

Budgets == 0..MaxEdits

FreqInsertCall(word, frequency) ==
    /\ impl = "freq" /\ Mutable /\ nops < MaxOps
    /\ ftrie' = FreqInsert(ftrie, word, frequency)
    /\ fstored' = IF Len(word) >= 2 THEN fstored \cup {toLowerCase(word)} ELSE fstored
    /\ last' = [NoCall EXCEPT !.op = "insert", !.word = word, !.frequency = frequency]
    /\ pre' = ftrie
    /\ nops' = nops + 1
    /\ UNCHANGED <<impl, pluginVars, trie, strie>>

FreqRemoveCall(word) ==
    /\ impl = "freq" /\ Mutable /\ nops < MaxOps
    /\ ftrie' = IF FreqRemoveThrows(word) THEN ftrie ELSE FreqRemove(ftrie, word)
    /\ fstored' = fstored \ {toLowerCase(word)}
    /\ last' = [NoCall EXCEPT !.op = "remove", !.word = word,
                              !.thrown = FreqRemoveThrows(word)]
    /\ pre' = ftrie
    /\ nops' = nops + 1
    /\ UNCHANGED <<impl, pluginVars, trie, strie>>

InsertCall(word) ==
    /\ impl = "fuzzy" /\ Mutable /\ nops < MaxInserts
    /\ trie' = Insert(trie, word)
    /\ last' = [NoCall EXCEPT !.op = "insert", !.word = word]
    /\ pre' = trie
    /\ nops' = nops + 1
    /\ UNCHANGED <<impl, pluginVars, ftrie, fstored, strie>>

\* search, made at any time
SearchQuery(prefix, limit) ==
    /\ impl = "fuzzy"
    /\ last' = [NoCall EXCEPT !.op = "search", !.word = prefix, !.limit = limit,
                              !.result = Search(trie, prefix, limit)]
    /\ pre' = trie
    /\ UNCHANGED <<impl, pluginVars, ftrie, fstored, trie, strie, nops>>

\* search as the one query that ends a behaviour
SearchCall(prefix, limit) == Mutable /\ SearchQuery(prefix, limit)

\* searchFuzzy, made at any time
SearchFuzzyQuery(term, maxEdits, limit) ==
    /\ impl = "fuzzy"
    /\ last' = [NoCall EXCEPT !.op = "searchFuzzy", !.word = term, !.limit = limit,
                              !.maxEdits = maxEdits,
                              !.result = SearchFuzzy(trie, term, maxEdits, limit)]
    /\ pre' = trie
    /\ UNCHANGED <<impl, pluginVars, ftrie, fstored, trie, strie, nops>>

\* searchFuzzy as the one query that ends a behaviour
SearchFuzzyCall(term, maxEdits, limit) == Mutable /\ SearchFuzzyQuery(term, maxEdits, limit)

SortedInsertCall(word) ==
    /\ impl = "sorted" /\ Mutable /\ nops < MaxInserts
    /\ strie' = SortedInsert(strie, word)
    /\ last' = [NoCall EXCEPT !.op = "insert", !.word = word]
    /\ pre' = strie
    /\ nops' = nops + 1
    /\ UNCHANGED <<impl, pluginVars, ftrie, fstored, trie>>

SortedSearchCall(prefix, limit) ==
    /\ impl = "sorted" /\ Mutable
    /\ last' = [NoCall EXCEPT !.op = "search", !.word = prefix, !.limit = limit,
                              !.result = SortedSearch(strie, prefix, limit)]
    /\ pre' = strie
    /\ UNCHANGED <<impl, pluginVars, ftrie, fstored, trie, strie, nops>>

\* the prefixes getSuggestions is called with: the typed word, which starts with
\* a letter
TypedWords == InputWords \ {<<>>}

\* getSuggestions under the settings maxSuggestions and fuzzyEdits, made at any
\* time
GetSuggestionsQuery(prefix, maxSuggestions, fuzzyEdits) ==
    /\ impl = "fuzzy"
    /\ last' = [NoCall EXCEPT !.op = "getSuggestions", !.word = prefix,
                              !.limit = maxSuggestions, !.maxEdits = fuzzyEdits,
                              !.result = GetSuggestions(trie, prefix, maxSuggestions,
                                                        fuzzyEdits)]
    /\ pre' = trie
    /\ UNCHANGED <<impl, pluginVars, ftrie, fstored, trie, strie, nops>>

\* getSuggestions as the one query that ends a behaviour
GetSuggestionsCall(prefix, maxSuggestions, fuzzyEdits) == Mutable /\ GetSuggestionsQuery(prefix, maxSuggestions, fuzzyEdits)

\* search counting the prefix it is asked for as a use of that word:
\* this.insert(prefix, 1) before it returns
FreqSearchQuery_CountsUse(prefix, limit, excludeWord) ==
    /\ impl = "freq"
    /\ last' = [NoCall EXCEPT !.op = "search", !.word = prefix, !.limit = limit,
                              !.excludeWord = excludeWord,
                              !.result = FreqSearch(ftrie, prefix, limit, excludeWord)]
    /\ pre' = ftrie
    /\ ftrie' = FreqInsert(ftrie, prefix, 1)
    /\ UNCHANGED <<impl, pluginVars, fstored, trie, strie, nops>>

\* search of the frequency Trie, made at any time; excludeWord is null or a word
FreqSearchQuery(prefix, limit, excludeWord) ==
    /\ impl = "freq"
    /\ last' = [NoCall EXCEPT !.op = "search", !.word = prefix, !.limit = limit,
                              !.excludeWord = excludeWord,
                              !.result = FreqSearch(ftrie, prefix, limit, excludeWord)]
    /\ pre' = ftrie
    /\ UNCHANGED <<impl, pluginVars, ftrie, fstored, trie, strie, nops>>

\* fuzzySearch of the frequency Trie, made at any time
FreqFuzzySearchQuery(prefix, limit, excludeWord) ==
    /\ impl = "freq"
    /\ last' = [NoCall EXCEPT !.op = "fuzzySearch", !.word = prefix, !.limit = limit,
                              !.excludeWord = excludeWord,
                              !.result = FreqFuzzySearch(ftrie, prefix, limit, excludeWord)]
    /\ pre' = ftrie
    /\ UNCHANGED <<impl, pluginVars, ftrie, fstored, trie, strie, nops>>

\* getSuggestions of the plugin that owns the frequency Trie, made at any time
FreqGetSuggestionsQuery(word, cfg, docWords) ==
    /\ impl = "freq"
    /\ last' = [NoCall EXCEPT !.op = "getSuggestions", !.word = word,
                              !.settings = cfg, !.documentWords = docWords,
                              !.result = FreqGetSuggestions(ftrie, word, cfg, docWords)]
    /\ pre' = ftrie
    /\ UNCHANGED <<impl, pluginVars, ftrie, fstored, trie, strie, nops>>

AddCustomWordCall(word) ==
    /\ impl = "freq" /\ Mutable /\ nops < MaxOps
    /\ LET r == AddCustomWord(settings.customWords, ftrie, word)
       IN /\ settings' = [settings EXCEPT !.customWords = r.customWords]
          /\ ftrie' = r.trie
          /\ fstored' = IF r.trie # ftrie THEN fstored \cup {toLowerCase(trim(word))}
                        ELSE fstored
    /\ last' = [NoCall EXCEPT !.op = "addCustomWord", !.word = word]
    /\ pre' = ftrie
    /\ nops' = nops + 1
    /\ UNCHANGED <<impl, trie, strie, ui, editor, timer, documentWords>>

RemoveCustomWordCall(word) ==
    /\ impl = "freq" /\ Mutable /\ nops < MaxOps
    /\ LET r == RemoveCustomWord(settings.customWords, ftrie, word)
       IN /\ settings' = [settings EXCEPT !.customWords = r.customWords]
          /\ ftrie' = r.trie
          /\ fstored' = IF r.customWords # settings.customWords
                        THEN fstored \ {toLowerCase(word)} ELSE fstored
    /\ last' = [NoCall EXCEPT !.op = "removeCustomWord", !.word = word]
    /\ pre' = ftrie
    /\ nops' = nops + 1
    /\ UNCHANGED <<impl, trie, strie, ui, editor, timer, documentWords>>

\* the 'Clear All' button, which the settings tab shows while there are
\* custom words
ClearAllCall ==
    /\ impl = "freq" /\ Mutable /\ nops < MaxOps
    /\ Len(settings.customWords) > 0
    /\ LET r == ClearAll(settings.customWords, ftrie)
       IN /\ settings' = [settings EXCEPT !.customWords = r.customWords]
          /\ ftrie' = r.trie
          /\ fstored' = fstored \ {toLowerCase(w) : w \in Range(settings.customWords)}
    /\ last' = [NoCall EXCEPT !.op = "clearAll"]
    /\ pre' = ftrie
    /\ nops' = nops + 1
    /\ UNCHANGED <<impl, trie, strie, ui, editor, timer, documentWords>>

\* the strings matchCase is called with: the typed words and the words of
\* mixed case
CaseWords == TypedWords \cup {<<"a", "B">>, <<"B">>, <<"A", "b", "b">>}

\* matchCase reads no field of the plugin; it is called on the constructed one
MatchCaseCall(word, original) ==
    /\ last.op = "none"
    /\ last' = [NoCall EXCEPT !.op = "matchCase", !.word = word, !.original = original,
                              !.result = CASE impl = "fuzzy" -> MatchCase(word, original)
                                           [] impl = "sorted" -> SortedMatchCase(word, original)
                                           [] impl = "freq" -> FreqMatchCase(word, original)]
    /\ UNCHANGED <<impl, pluginVars, ftrie, fstored, trie, strie, pre, nops>>

\* The plugins on an editor.  An action is an event and the handlers that run
\* on it: a typed character, the timeout of the debounce, a key pressed while
\* suggestions are shown, a click, a change in the settings tab.  Characters
\* are typed at the cursor, at most MaxText of them; a key the handlers leave
\* to the editor is followed where it is Enter (a new line) or an arrow of
\* part_000 (the cursor moves).

\* the editor-change handlers of src/main.js on the timer: the pending timeout
\* is replaced unless the plugin is disabled
EditorChanged(cfg, tm) == IF cfg.enabled THEN Some(<<>>) ELSE tm

\* the suffix accept() adds to the suggestion
Suffix(cfg) == IF cfg.addSpace THEN Blank ELSE <<>>

SortedType(c) ==
    /\ impl = "sorted"
    /\ Len(editor.before) + Len(editor.after) < MaxText
    /\ editor' = [editor EXCEPT !.before = Append(@, c)]
    /\ timer' = EditorChanged(settings, timer)
    /\ last' = [NoCall EXCEPT !.op = "type", !.key = c]
    /\ UNCHANGED <<impl, ftrie, fstored, trie, strie, pre, nops, settings, ui, documentWords>>

SortedTimer ==
    /\ impl = "sorted"
    /\ timer # Null
    /\ timer' = Null
    /\ ui' = Process(strie, settings, ui, editor)
    /\ last' = LET word == ProcessWord(editor, settings.minLength)
               IN IF word = Null THEN [NoCall EXCEPT !.op = "process"]
                  ELSE [NoCall EXCEPT !.op = "getSuggestions", !.word = word[1],
                                      !.limit = settings.maxSuggestions,
                                      !.result = SortedGetSuggestions(strie, word[1], settings)]
    /\ UNCHANGED <<impl, ftrie, fstored, trie, strie, pre, nops, settings, editor, documentWords>>

SortedKeyDown(key, shiftKey) ==
    /\ impl = "sorted"
    /\ ui.visible
    /\ last' = [NoCall EXCEPT !.op = "keydown", !.key = key, !.shiftKey = shiftKey]
    /\ CASE key = "ArrowDown" -> ui' = Move(ui, "down") /\ UNCHANGED <<editor, timer>>
         [] key = "ArrowUp" -> ui' = Move(ui, "up") /\ UNCHANGED <<editor, timer>>
         [] key = "Tab" \/ (key = "Enter" /\ ~shiftKey) ->
                /\ editor' = ReplaceRange(editor,
                                          ui.suggestions[ui.selectedIndex + 1] \o Suffix(settings),
                                          ui.wordStart)
                /\ ui' = Hide(ui)
                /\ timer' = EditorChanged(settings, timer)
         [] key = "Enter" /\ shiftKey ->
                /\ Len(editor.before) + Len(editor.after) < MaxText
                /\ editor' = [editor EXCEPT !.before = Append(@, "\n")]
                /\ timer' = EditorChanged(settings, timer)
                /\ ui' = ui
         [] key = "Escape" -> ui' = Hide(ui) /\ UNCHANGED <<editor, timer>>
    /\ UNCHANGED <<impl, ftrie, fstored, trie, strie, pre, nops, settings, documentWords>>

\* a click outside the dropdown
SortedClick ==
    /\ impl = "sorted"
    /\ ui' = Hide(ui)
    /\ last' = [NoCall EXCEPT !.op = "click"]
    /\ UNCHANGED <<impl, ftrie, fstored, trie, strie, pre, nops, settings, editor, timer, documentWords>>

SortedSetEnabled(v) ==
    /\ impl = "sorted"
    /\ settings' = [settings EXCEPT !.enabled = v]
    /\ ui' = IF ~v THEN Hide(ui) ELSE ui
    /\ last' = [NoCall EXCEPT !.op = "setEnabled"]
    /\ UNCHANGED <<impl, ftrie, fstored, trie, strie, pre, nops, editor, timer, documentWords>>

SortedSetMinLength(v) ==
    /\ impl = "sorted"
    /\ settings' = [settings EXCEPT !.minLength = v]
    /\ last' = [NoCall EXCEPT !.op = "setMinLength"]
    /\ UNCHANGED <<impl, ftrie, fstored, trie, strie, pre, nops, ui, editor, timer, documentWords>>

FreqType(c) ==
    /\ impl = "freq"
    /\ Len(editor.before) + Len(editor.after) < MaxText
    /\ editor' = [editor EXCEPT !.before = Append(@, c)]
    /\ timer' = EditorChanged(settings, timer)
    /\ last' = [NoCall EXCEPT !.op = "type", !.key = c]
    /\ UNCHANGED <<impl, ftrie, fstored, trie, strie, pre, nops, settings, ui, documentWords>>

FreqTimer ==
    /\ impl = "freq"
    /\ timer # Null
    /\ timer' = Null
    /\ ui' = ProcessSuggestions(ftrie, settings, documentWords, ui, editor)
    /\ last' = LET word == ProcessWord(editor, settings.minWordLength)
               IN IF word = Null THEN [NoCall EXCEPT !.op = "process"]
                  ELSE [NoCall EXCEPT !.op = "getSuggestions", !.word = word[1],
                                      !.limit = settings.maxSuggestions,
                                      !.result = FreqGetSuggestions(ftrie, word[1], settings,
                                                                    documentWords)]
    /\ UNCHANGED <<impl, ftrie, fstored, trie, strie, pre, nops, settings, editor, documentWords>>

\* accept() counts the use of the suggestion in the trie and learns it
FreqKeyDown(key, shiftKey) ==
    /\ impl = "freq"
    /\ ui.visible
    /\ last' = [NoCall EXCEPT !.op = "keydown", !.key = key, !.shiftKey = shiftKey]
    /\ CASE key = "ArrowDown" ->
                ui' = Move(ui, "down") /\ UNCHANGED <<editor, timer, ftrie, fstored, documentWords, nops>>
         [] key = "ArrowUp" ->
                ui' = Move(ui, "up") /\ UNCHANGED <<editor, timer, ftrie, fstored, documentWords, nops>>
         [] key = "Tab" \/ (key = "Enter" /\ ~shiftKey) ->
                LET suggestion == ui.suggestions[ui.selectedIndex + 1]
                IN /\ nops < MaxOps
                   /\ editor' = ReplaceRange(editor, suggestion \o Suffix(settings), ui.wordStart)
                   /\ ftrie' = FreqInsert(ftrie, suggestion, 1)
                   /\ fstored' = IF Len(suggestion) >= 2
                                 THEN fstored \cup {toLowerCase(suggestion)} ELSE fstored
                   /\ documentWords' = LearnWord(documentWords, settings, suggestion)
                   /\ nops' = nops + 1
                   /\ ui' = Destroy(ui)
                   /\ timer' = EditorChanged(settings, timer)
         [] key = "Enter" /\ shiftKey ->
                /\ Len(editor.before) + Len(editor.after) < MaxText
                /\ editor' = [editor EXCEPT !.before = Append(@, "\n")]
                /\ timer' = EditorChanged(settings, timer)
                /\ UNCHANGED <<ui, ftrie, fstored, documentWords, nops>>
         [] key = "Escape" ->
                ui' = Destroy(ui) /\ UNCHANGED <<editor, timer, ftrie, fstored, documentWords, nops>>
    /\ UNCHANGED <<impl, trie, strie, pre, settings>>

FreqClick ==
    /\ impl = "freq"
    /\ ui' = IF ui.visible THEN Destroy(ui) ELSE ui
    /\ last' = [NoCall EXCEPT !.op = "click"]
    /\ UNCHANGED <<impl, ftrie, fstored, trie, strie, pre, nops, settings, editor, timer, documentWords>>

FreqSetEnabled(v) ==
    /\ impl = "freq"
    /\ settings' = [settings EXCEPT !.enabled = v]
    /\ ui' = IF ~v THEN Destroy(ui) ELSE ui
    /\ last' = [NoCall EXCEPT !.op = "setEnabled"]
    /\ UNCHANGED <<impl, ftrie, fstored, trie, strie, pre, nops, editor, timer, documentWords>>

FreqSetMinLength(v) ==
    /\ impl = "freq"
    /\ settings' = [settings EXCEPT !.minWordLength = v]
    /\ last' = [NoCall EXCEPT !.op = "setMinLength"]
    /\ UNCHANGED <<impl, ftrie, fstored, trie, strie, pre, nops, ui, editor, timer, documentWords>>

\* a character typed in the editor of part_000: GhostTextState.update, then
\* the change listener
GhostType(c) ==
    /\ impl = "fuzzy"
    /\ Len(editor.before) + Len(editor.after) < MaxText
    /\ editor' = [editor EXCEPT !.before = Append(@, c)]
    /\ ui' = AutoClear(ui, Len(editor.before) + 1)
    /\ timer' = IF ListenerTimeout(settings, editor') = Null THEN timer
                ELSE ListenerTimeout(settings, editor')
    /\ last' = [NoCall EXCEPT !.op = "type", !.key = c]
    /\ UNCHANGED <<impl, ftrie, fstored, trie, strie, pre, nops, settings, documentWords>>

\* the timeout of the change listener calls updateSuggestions with the
\* arguments bound when it was set
GhostTimer ==
    /\ impl = "fuzzy"
    /\ timer # Null
    /\ timer' = Null
    /\ ui' = UpdateSuggestions(trie, settings, ui, timer[1].prefix, timer[1].cursorPos,
                               timer[1].wordStart)
    /\ last' = [NoCall EXCEPT !.op = "getSuggestions", !.word = timer[1].prefix,
                              !.limit = settings.maxSuggestions,
                              !.maxEdits = settings.fuzzyEdits,
                              !.result = GetSuggestions(trie, timer[1].prefix,
                                                        settings.maxSuggestions,
                                                        settings.fuzzyEdits)]
    /\ UNCHANGED <<impl, ftrie, fstored, trie, strie, pre, nops, settings, editor, documentWords>>

\* the keydown handler of part_000 while ghost text is shown
GhostKeyDown(key, shiftKey) ==
    /\ impl = "fuzzy"
    /\ ui # Null
    /\ last' = [NoCall EXCEPT !.op = "keydown", !.key = key, !.shiftKey = shiftKey,
                              !.thrown = /\ key = "Tab"
                                         /\ ui[1].cursorPos > Len(editor.before) + Len(editor.after)]
    /\ LET state == ui[1]
           atCursor == Len(editor.before) = state.cursorPos
           cycles == atCursor /\ Len(state.suggestions) > 1
           \* a change behind the end of the document: dispatch throws a RangeError
           outside == state.cursorPos > Len(editor.before) + Len(editor.after)
       IN CASE key = "Tab" /\ outside ->
                   editor' = editor /\ ui' = ui
            [] key = "Tab" /\ ~outside ->
                   LET s == state.suggestions[state.currentIndex + 1]
                       from == IF s.isFuzzy THEN s.wordStart ELSE state.cursorPos
                   IN /\ editor' = DispatchChanges(editor, from, state.cursorPos,
                                                   s.text \o Suffix(settings))
                      /\ ui' = Null
            [] key = "ArrowRight" /\ cycles -> ui' = Cycle(ui, 1) /\ editor' = editor
            [] key = "ArrowLeft" /\ cycles -> ui' = Cycle(ui, -1) /\ editor' = editor
            [] key = "ArrowRight" /\ ~cycles ->
                   /\ editor' = IF editor.after = <<>> THEN editor
                                ELSE [before |-> Append(editor.before, Head(editor.after)),
                                      after |-> Tail(editor.after)]
                   /\ ui' = IF editor.after = <<>> THEN ui
                            ELSE AutoClear(ui, Len(editor.before) + 1)
            [] key = "ArrowLeft" /\ ~cycles ->
                   /\ editor' = IF editor.before = <<>> THEN editor
                                ELSE [before |-> SubSeq(editor.before, 1, Len(editor.before) - 1),
                                      after |-> <<editor.before[Len(editor.before)]>>
                                                \o editor.after]
                   /\ ui' = IF editor.before = <<>> THEN ui
                            ELSE AutoClear(ui, Len(editor.before) - 1)
            [] key = "Escape" -> ui' = Null /\ editor' = editor
            [] key = "Enter" ->
                   /\ Len(editor.before) + Len(editor.after) < MaxText
                   /\ editor' = [editor EXCEPT !.before = Append(@, "\n")]
                   /\ ui' = AutoClear(ui, Len(editor.before) + 1)
    /\ UNCHANGED <<impl, ftrie, fstored, trie, strie, pre, nops, settings, timer, documentWords>>

\* Backspace in the editor of part_000: the key handler does not handle the key,
\* the editor deletes the character before the cursor, GhostTextState.update
\* sees a changed document, and the change listener returns because the
\* transaction is no 'input.type' event, so a pending timeout stays as it is.
\* nops counts the deletions.
GhostBackspace ==
    /\ impl = "fuzzy"
    /\ nops < MaxDeletes
    /\ editor.before # <<>>
    /\ editor' = [editor EXCEPT !.before = SubSeq(@, 1, Len(@) - 1)]
    /\ ui' = AutoClear(ui, Len(editor.before) - 1)
    /\ nops' = nops + 1
    /\ last' = [NoCall EXCEPT !.op = "delete"]
    /\ UNCHANGED <<impl, ftrie, fstored, trie, strie, pre, settings, timer, documentWords>>

GhostSetEnabled(v) ==
    /\ impl = "fuzzy"
    /\ settings' = [settings EXCEPT !.enabled = v]
    /\ last' = [NoCall EXCEPT !.op = "setEnabled"]
    /\ UNCHANGED <<impl, ftrie, fstored, trie, strie, pre, nops, ui, editor, timer, documentWords>>

GhostSetMinLength(v) ==
    /\ impl = "fuzzy"
    /\ settings' = [settings EXCEPT !.minLength = v]
    /\ last' = [NoCall EXCEPT !.op = "setMinLength"]
    /\ UNCHANGED <<impl, ftrie, fstored, trie, strie, pre, nops, ui, editor, timer, documentWords>>

\* the "Add space after word" toggle of the settings tab of part_000
GhostSetAddSpace(v) ==
    /\ impl = "fuzzy"
    /\ settings' = [settings EXCEPT !.addSpace = v]
    /\ last' = [NoCall EXCEPT !.op = "setAddSpace"]
    /\ UNCHANGED <<impl, ftrie, fstored, trie, strie, pre, nops, ui, editor, timer, documentWords>>

\* loadDictionary of part_000; read is what adapter.read does
LoadDictionaryCall(read) ==
    /\ impl = "fuzzy" /\ Mutable /\ nops < MaxInserts
    /\ trie' = LoadDictionary(trie, read)
    /\ last' = [NoCall EXCEPT !.op = "loadDictionary", !.read = read]
    /\ pre' = trie
    /\ nops' = nops + 1
    /\ UNCHANGED <<impl, pluginVars, ftrie, fstored, strie>>

\* loadDictionary of the plugin that owns the sorted Trie
SortedLoadDictionaryCall(read) ==
    /\ impl = "sorted" /\ Mutable /\ nops < MaxInserts
    /\ strie' = SortedLoadDictionary(strie, read)
    /\ last' = [NoCall EXCEPT !.op = "loadDictionary", !.read = read]
    /\ pre' = strie
    /\ nops' = nops + 1
    /\ UNCHANGED <<impl, pluginVars, ftrie, fstored, trie>>

\* loadDictionary of the plugin that owns the frequency Trie; read is what
\* adapter.exists and adapter.read do
FreqLoadDictionaryCall(read) ==
    /\ impl = "freq" /\ Mutable /\ nops < MaxOps
    /\ ftrie' = FreqLoadDictionary(ftrie, settings.customWords, read)
    /\ fstored' = LET lines == IF read.outcome = "content"
                               THEN {trim(l) : l \in Range(split(read.content, "\n"))}
                               ELSE {}
                      words == {w \in Range(settings.customWords) \cup lines : Len(w) >= 2}
                  IN fstored \cup {toLowerCase(w) : w \in words}
    /\ last' = [NoCall EXCEPT !.op = "loadDictionary", !.read = read]
    /\ pre' = ftrie
    /\ nops' = nops + 1
    /\ UNCHANGED <<impl, pluginVars, trie, strie>>

\* trie.insert of one word of the dictionary, in part_000
DictionaryInsertCall(word) ==
    /\ impl = "fuzzy" /\ Mutable /\ nops < MaxStored
    /\ trie' = Insert(trie, word)
    /\ last' = [NoCall EXCEPT !.op = "insert", !.word = word]
    /\ pre' = trie
    /\ nops' = nops + 1
    /\ UNCHANGED <<impl, pluginVars, ftrie, fstored, strie>>

\* show(suggestions, editor, wordStart, currentWord) for the word before the cursor
ShowCall(suggestions) ==
    /\ impl = "freq"
    /\ ui' = show(ui, suggestions, Len(editor.before) - Len(WordBefore(editor.before)),
                  WordBefore(editor.before))
    /\ last' = [NoCall EXCEPT !.op = "show"]
    /\ UNCHANGED <<impl, ftrie, fstored, trie, strie, pre, nops, settings, editor, timer, documentWords>>

\* the mouseenter listener of the item with this index of the dropdown
SetSelectedCall(index) ==
    /\ impl = "freq"
    /\ ui.dropdown # Null
    /\ index < ui.dropdown[1]
    /\ ui' = setSelected(ui, index)
    /\ last' = [NoCall EXCEPT !.op = "setSelected"]
    /\ UNCHANGED <<impl, ftrie, fstored, trie, strie, pre, nops, settings, editor, timer, documentWords>>

MoveSelectionCall(direction) ==
    /\ impl = "freq"
    /\ ui' = moveSelection(ui, direction)
    /\ last' = [NoCall EXCEPT !.op = "moveSelection", !.key = direction]
    /\ UNCHANGED <<impl, ftrie, fstored, trie, strie, pre, nops, settings, editor, timer, documentWords>>

\* accept(editor): the selected suggestion replaces the text from wordStart to
\* the cursor, its use is counted in the trie, it is learned, and the dropdown
\* is destroyed
AcceptCall ==
    /\ impl = "freq"
    /\ last' = [NoCall EXCEPT !.op = "accept"]
    /\ IF ~ui.isVisible \/ Len(ui.suggestions) = 0
       THEN UNCHANGED <<ui, editor, ftrie, fstored, documentWords, nops>>
       ELSE LET suggestion == ui.suggestions[ui.selectedIndex + 1]
            IN /\ nops < MaxOps
               /\ editor' = ReplaceRange(editor, suggestion \o Suffix(settings), ui.wordStart[1])
               /\ ftrie' = FreqInsert(ftrie, suggestion, 1)
               /\ fstored' = IF Len(suggestion) >= 2
                             THEN fstored \cup {toLowerCase(suggestion)} ELSE fstored
               /\ documentWords' = LearnWord(documentWords, settings, suggestion)
               /\ nops' = nops + 1
               /\ ui' = destroy(ui)
    /\ UNCHANGED <<impl, trie, strie, pre, settings, timer>>

DestroyCall ==
    /\ impl = "freq"
    /\ ui' = destroy(ui)
    /\ last' = [NoCall EXCEPT !.op = "destroy"]
    /\ UNCHANGED <<impl, ftrie, fstored, trie, strie, pre, nops, settings, editor, timer, documentWords>>

\* the state after the constructors; pre is the trie under test
Constructed ==
    /\ ftrie = FreqTrie
    /\ fstored = {}
    /\ trie = TrieNode
    /\ strie = TrieNode
    /\ last = NoCall
    /\ nops = 0
    /\ settings = CASE impl = "freq" -> FreqDefaultSettings
                     [] impl = "sorted" -> SortedDefaultSettings
                     [] impl = "fuzzy" -> DefaultSettings
    /\ ui = IF impl = "fuzzy" THEN Null ELSE AutocompleteUI
    /\ editor = EmptyLine
    /\ timer = Null
    /\ documentWords = <<>>

InitFreq == impl = "freq" /\ Constructed /\ pre = FreqTrie

InitFuzzy == impl = "fuzzy" /\ Constructed /\ pre = TrieNode

InitSorted == impl = "sorted" /\ Constructed /\ pre = TrieNode

Init == InitFreq \/ InitFuzzy \/ InitSorted

NextFreq ==
    \/ \E w \in InputWords : FreqInsertCall(w, 1)
    \/ \E w \in CustomWords : FreqInsertCall(w, 5)
    \/ \E w \in InputWords : FreqRemoveCall(w)

NextFuzzy ==
    \/ \E w \in InputWords : InsertCall(w)
    \/ \E p \in InputWords, n \in Limits : SearchCall(p, n)
    \/ \E q \in InputWords, k \in Budgets, n \in Limits : SearchFuzzyCall(q, k, n)

NextSorted ==
    \/ \E w \in InputWords : SortedInsertCall(w)
    \/ \E p \in InputWords, n \in Limits : SortedSearchCall(p, n)

\* the plugin of part_000: the dictionary is loaded, then suggestions are asked for
NextSuggest ==
    \/ \E w \in InputWords : InsertCall(w)
    \/ \E p \in TypedWords, n \in Limits, k \in Budgets : GetSuggestionsCall(p, n, k)

NextCase == \E w \in CaseWords, o \in CaseWords : MatchCaseCall(w, o)

Next == NextFreq \/ NextFuzzy \/ NextSorted \/ NextSuggest \/ NextCase

SpecFreq == InitFreq /\ [][NextFreq]_vars

SpecFuzzy == InitFuzzy /\ [][NextFuzzy]_vars

SpecSorted == InitSorted /\ [][NextSorted]_vars

SpecSuggest == InitFuzzy /\ [][NextSuggest]_vars

SpecCase == Init /\ [][NextCase]_vars

Spec == Init /\ [][Next]_vars

\* the calls that change a trie, in the three Trie classes; search reads the
\* trie only and is evaluated on the tries these calls reach
NextTries ==
    \/ NextFreq
    \/ \E w \in InputWords : InsertCall(w)
    \/ \E w \in InputWords : SortedInsertCall(w)

SpecTries == Init /\ [][NextTries]_vars

\* the strings the interleaved queries are made with
ProbeWords == {<<>>, <<"a">>, <<"A", "b">>, <<"b", "a", "b">>}

\* the settings getSuggestions of the frequency Trie's plugin runs under
FreqSettings == {[FreqDefaultSettings EXCEPT !.maxSuggestions = n, !.fuzzyMatch = f] : n \in Limits, f \in BOOLEAN}

\* documentWords: empty, as constructed, and after a file with two words was read
DocumentWordLists == {<<>>, <<<<"B", "a", "b">>, <<"b", "a", "b">>>>}

\* the words the trie is changed with between the queries
ChurnWords == {<<"a", "b">>, <<"b", "a", "b">>, <<"B", "a", "a">>}

\* queries made at any time, between the calls that change the trie and after
\* other queries
NextQueries ==
    \/ \E w \in ChurnWords : InsertCall(w)
    \/ \E p \in ProbeWords, n \in Limits : SearchQuery(p, n)
    \/ \E q \in ProbeWords, k \in Budgets, n \in Limits : SearchFuzzyQuery(q, k, n)
    \/ \E p \in ProbeWords \ {<<>>}, n \in Limits, k \in Budgets : GetSuggestionsQuery(p, n, k)
    \/ \E w \in ChurnWords : FreqInsertCall(w, 1)
    \/ \E w \in ChurnWords : FreqRemoveCall(w)
    \/ \E p \in ProbeWords, n \in Limits, x \in {Null, Some(<<"a", "b">>)} : FreqSearchQuery(p, n, x)
    \/ \E p \in ProbeWords, n \in Limits, x \in {Null} : FreqFuzzySearchQuery(p, n, x)
    \/ \E w \in ProbeWords \ {<<>>}, s \in FreqSettings, d \in DocumentWordLists : FreqGetSuggestionsQuery(w, s, d)

SpecQueries == (InitFreq \/ InitFuzzy) /\ [][NextQueries]_vars

\* search of the frequency Trie as the one query that ends a behaviour
FreqSearchCall(prefix, limit) == Mutable /\ FreqSearchQuery(prefix, limit, Null)

\* degenerate arguments: the empty string, a blank string, a one-character
\* string and a missing argument
DegenerateWords == {<<>>, Blank, <<"a">>, Undefined}

\* the arguments of the calls of SpecTotal: the degenerate ones and two words
TotalWords == DegenerateWords \cup {<<"a", "b">>, <<"B", "a">>}

\* insert, remove, search and searchFuzzy called with degenerate arguments too
NextTotal ==
    \/ \E w \in TotalWords : FreqInsertCall(w, 1)
    \/ \E w \in TotalWords : FreqRemoveCall(w)
    \/ \E p \in TotalWords, n \in Limits : FreqSearchCall(p, n)
    \/ \E w \in TotalWords : InsertCall(w)
    \/ \E p \in TotalWords, n \in Limits : SearchCall(p, n)
    \/ \E q \in TotalWords, k \in Budgets, n \in Limits : SearchFuzzyCall(q, k, n)

SpecTotal == (InitFreq \/ InitFuzzy) /\ [][NextTotal]_vars

\* what the text field of the settings tab and the Remove buttons pass to
\* addCustomWord and removeCustomWord
CustomInputs == {<<>>, Blank, <<"a">>, <<"a", "b">>, <<" ", "a", "b">>, <<"A", "b">>, <<"b", "a", "b">>}

\* the words of words.txt in SpecCustom
DictionaryWords == {<<"a", "b">>, <<"b", "a", "a">>}

\* the custom dictionary is edited while dictionary words are inserted
NextCustom ==
    \/ \E w \in DictionaryWords : FreqInsertCall(w, 1)
    \/ \E w \in CustomInputs : AddCustomWordCall(w)
    \/ \E w \in CustomInputs : RemoveCustomWordCall(w)

SpecCustom == InitFreq /\ [][NextCustom]_vars

\* what is typed in the text field of the custom dictionary: words that differ
\* in letter case only, a word with a blank, a one-letter word and another word
CustomEntries == {<<"a", "b">>, <<"A", "b">>, <<"a", "b", " ">>, <<"a">>, <<"b", "a", "b">>}

\* the custom dictionary is edited in the settings tab: words are added, the
\* Remove button of a listed word is pressed, or 'Clear All'
NextCustomWords ==
    \/ \E w \in CustomEntries : AddCustomWordCall(w)
    \/ \E i \in 1..MaxOps : i <= Len(settings.customWords) /\ RemoveCustomWordCall(settings.customWords[i])
    \/ ClearAllCall

SpecCustomWords == InitFreq /\ [][NextCustomWords]_vars

\* the content of words.txt in SpecPlugin
WordsTxt == <<"a", "b", "\n", "a", "b", "b", "\n", "a", "b", "b", "a", "\n", "b", "a", "b", "\n">>

TypedChars == {"a", "b", "B", " "}

MainKeys == {"ArrowDown", "ArrowUp", "Enter", "Tab", "Escape"}

GhostKeys == {"ArrowLeft", "ArrowRight", "Enter", "Tab", "Escape"}

\* the positions of the slider of the minimum word length the text can reach
MinLengths == {2, 3}

\* the state after onload: the dictionary is loaded, nothing is typed
InitPlugin ==
    /\ impl \in {"freq", "sorted", "fuzzy"}
    /\ ftrie = IF impl = "freq"
               THEN FreqLoadDictionary(FreqTrie, FreqDefaultSettings.customWords,
                                       ReadReturns(WordsTxt))
               ELSE FreqTrie
    /\ fstored = IF impl = "freq"
                 THEN {w \in {trim(l) : l \in Range(split(WordsTxt, "\n"))} : Len(w) >= 2}
                 ELSE {}
    /\ trie = IF impl = "fuzzy" THEN LoadDictionary(TrieNode, ReadReturns(WordsTxt)) ELSE TrieNode
    /\ strie = IF impl = "sorted" THEN SortedLoadDictionary(TrieNode, ReadReturns(WordsTxt))
               ELSE TrieNode
    /\ pre = CASE impl = "freq" -> ftrie [] impl = "fuzzy" -> trie [] impl = "sorted" -> strie
    /\ last = NoCall
    /\ nops = 0
    /\ settings = CASE impl = "freq" -> FreqDefaultSettings
                    [] impl = "sorted" -> SortedDefaultSettings
                    [] impl = "fuzzy" -> DefaultSettings
    /\ ui = IF impl = "fuzzy" THEN Null ELSE AutocompleteUI
    /\ editor = EmptyLine
    /\ timer = Null
    /\ documentWords = <<>>

NextPlugin ==
    \/ \E c \in TypedChars : SortedType(c)
    \/ SortedTimer
    \/ \E key \in MainKeys, shiftKey \in BOOLEAN : SortedKeyDown(key, shiftKey)
    \/ SortedClick
    \/ \E v \in BOOLEAN : SortedSetEnabled(v)
    \/ \E v \in MinLengths : SortedSetMinLength(v)
    \/ \E c \in TypedChars : FreqType(c)
    \/ FreqTimer
    \/ \E key \in MainKeys, shiftKey \in BOOLEAN : FreqKeyDown(key, shiftKey)
    \/ FreqClick
    \/ \E v \in BOOLEAN : FreqSetEnabled(v)
    \/ \E v \in MinLengths : FreqSetMinLength(v)
    \/ \E c \in TypedChars : GhostType(c)
    \/ GhostTimer
    \/ \E key \in GhostKeys, shiftKey \in BOOLEAN : GhostKeyDown(key, shiftKey)
    \/ \E v \in BOOLEAN : GhostSetEnabled(v)
    \/ \E v \in MinLengths : GhostSetMinLength(v)

SpecPlugin == InitPlugin /\ [][NextPlugin]_vars

\* the plugin of part_000 on an editor in which characters are deleted as well
InitGhost == InitPlugin /\ impl = "fuzzy"

NextGhost ==
    \/ \E c \in TypedChars : GhostType(c)
    \/ GhostTimer
    \/ \E key \in GhostKeys, shiftKey \in BOOLEAN : GhostKeyDown(key, shiftKey)
    \/ GhostBackspace
    \/ \E v \in MinLengths : GhostSetMinLength(v)
    \/ \E v \in BOOLEAN : GhostSetAddSpace(v)

SpecGhost == InitGhost /\ [][NextGhost]_vars

\* contents of words.txt: empty, two words, lines with blanks and an empty line
Contents == {<<>>, <<"a", "b", "\n", "b", "a", "b">>, <<" ", "a", "b", " ", "\n", "\n", "B", "a", "\n">>}

\* what reading words.txt does in SpecLoad
Reads == {ReadFails, ReadMissing} \cup {ReadReturns(c) : c \in Contents}

\* words inserted and custom words added before the dictionary is loaded
LoadWords == {<<"a", "b">>, <<"b", "b">>}

\* the dictionary is loaded into a Trie that may hold words already
NextLoad ==
    \/ \E w \in LoadWords : InsertCall(w)
    \/ \E w \in LoadWords : SortedInsertCall(w)
    \/ \E w \in LoadWords : AddCustomWordCall(w)
    \/ \E read \in Reads \ {ReadMissing} : LoadDictionaryCall(read)
    \/ \E read \in Reads \ {ReadMissing} : SortedLoadDictionaryCall(read)
    \/ \E read \in Reads : FreqLoadDictionaryCall(read)

SpecLoad == Init /\ [][NextLoad]_vars

\* the words of the dictionary in SpecCompact: five of them are one edit away
\* from the query ab
CompactWords == {<<"a">>, <<"a", "a">>, <<"b">>, <<"b", "a">>, <<"b", "b">>, <<"a", "b">>}

CompactQueries == {<<"a", "b">>, <<"B">>}

\* a dictionary of up to MaxStored words is inserted in any order and queried
NextCompact ==
    \/ \E w \in CompactWords : DictionaryInsertCall(w)
    \/ \E q \in CompactQueries, k \in 1..MaxEdits, n \in 1..MaxLimit : SearchFuzzyCall(q, k, n)

SpecCompact == InitFuzzy /\ [][NextCompact]_vars

\* the words stored in SpecFuzzySearch: one substitution apart, and one longer
FuzzyStored == {<<"b", "a", "b">>, <<"b", "a", "a">>, <<"b", "a", "a", "b">>, <<"a", "a", "b">>, <<"a", "b">>}

\* the queries of SpecFuzzySearch: shorter than 3, of length 3, missing
FuzzyQueries == {<<>>, Undefined, <<"b", "a">>, <<"b", "a", "b">>, <<"B", "a", "a">>, <<"b", "b", "b">>}

\* fuzzySearch as the one query that ends a behaviour
FreqFuzzySearchCall(prefix, limit, excludeWord) == Mutable /\ FreqFuzzySearchQuery(prefix, limit, excludeWord)

\* words are inserted and removed, then fuzzySearch is called
NextFuzzySearch ==
    \/ \E w \in FuzzyStored, f \in Frequencies : FreqInsertCall(w, f)
    \/ \E w \in FuzzyStored : FreqRemoveCall(w)
    \/ \E q \in FuzzyQueries, n \in 1..MaxLimit, x \in {Null, Some(<<"b", "a", "b">>)} : FreqFuzzySearchCall(q, n, x)

SpecFuzzySearch == InitFreq /\ [][NextFuzzySearch]_vars

\* getSuggestions of the plugin of the frequency Trie as the one query that
\* ends a behaviour
FreqGetSuggestionsCall(word, cfg, docWords) == Mutable /\ FreqGetSuggestionsQuery(word, cfg, docWords)

\* the words typed in SpecDocument
DocumentTyped == {<<"b", "a">>, <<"B", "a", "b">>, <<"b", "a", "b">>}

\* the settings of SpecDocument
DocumentSettings == {[FreqDefaultSettings EXCEPT !.maxSuggestions = n, !.fuzzyMatch = f, !.caseSensitive = c, !.learnFromDocument = l, !.excludeWords = x] : n \in 1..MaxLimit, f \in BOOLEAN, c \in BOOLEAN, l \in BOOLEAN, x \in {<<>>, <<<<"B", "a", "b", "a">>>>}}

\* documentWords in SpecDocument: the words of a note, with their letter case
DocumentLists == {<<>>, <<<<"B", "a", "b", "a">>, <<"b", "a", "b", "a">>>>, <<<<"b", "a", "b", "b">>>>}

\* the dictionary words of SpecDocument
DocumentStored == {<<"b", "a", "b">>, <<"b", "a", "b", "a">>, <<"b", "a", "a">>}

\* dictionary words are inserted and removed, then getSuggestions is called
NextDocument ==
    \/ \E w \in DocumentStored, f \in Frequencies : FreqInsertCall(w, f)
    \/ \E w \in DocumentStored : FreqRemoveCall(w)
    \/ \E w \in DocumentTyped, s \in DocumentSettings, d \in DocumentLists : FreqGetSuggestionsCall(w, s, d)

SpecDocument == InitFreq /\ [][NextDocument]_vars

\* an index no item of a dropdown has
MaxItems == 3

\* the lists show is called with: none, an empty one, and one, two or three
\* suggestions
ShownLists == {Undefined, <<>>, <<<<"a", "b">>>>, <<<<"a", "b">>, <<"a", "b", "b">>>>, <<<<"a", "b", "b">>, <<"a", "b">>, <<"A", "b", "b", "a">>>>}

\* the AutocompleteUI of the plugin of the frequency Trie as constructed
InitDropdown ==
    /\ impl = "freq"
    /\ ftrie = FreqTrie
    /\ fstored = {}
    /\ trie = TrieNode
    /\ strie = TrieNode
    /\ pre = FreqTrie
    /\ last = NoCall
    /\ nops = 0
    /\ settings \in {FreqDefaultSettings, [FreqDefaultSettings EXCEPT !.addSpace = FALSE]}
    /\ ui = DropdownUI
    /\ editor \in {EmptyLine, [before |-> <<"a">>, after |-> <<>>]}
    /\ timer = Null
    /\ documentWords = <<>>

NextDropdown ==
    \/ \E suggestions \in ShownLists : ShowCall(suggestions)
    \/ \E index \in 0..MaxItems : SetSelectedCall(index)
    \/ \E direction \in {"up", "down"} : MoveSelectionCall(direction)
    \/ AcceptCall
    \/ DestroyCall

SpecDropdown == InitDropdown /\ [][NextDropdown]_vars

----------------------------------------------------------------------------
(* Reference definitions the properties are stated with *)

\* the words a (sub)tree stores: the paths from the root to its isWord nodes
RECURSIVE WordsUnder(_, _)
WordsUnder(node, prefix) ==
    (IF node.isWord THEN {prefix} ELSE {})
    \cup UNION {WordsUnder(node.children[i].value, Append(prefix, node.children[i].key)) : i \in DOMAIN node.children}

\* every node of a (sub)tree, as <<path, isWord>>
RECURSIVE NodesUnder(_, _)
NodesUnder(node, prefix) ==
    {<<prefix, node.isWord>>}
    \cup UNION {NodesUnder(node.children[i].value, Append(prefix, node.children[i].key)) : i \in DOMAIN node.children}

\* no node of the (sub)tree is childless and not a word
RECURSIVE Live(_)
Live(node) ==
    /\ node.children # <<>> \/ node.isWord
    /\ \A i \in DOMAIN node.children : Live(node.children[i].value)

\* optimal-string-alignment distance, by its recursion on the first characters:
\* delete, insert, substitute or match, swap two adjacent characters
RECURSIVE OSA(_, _)
OSA(a, b) ==
    IF a = <<>> THEN Len(b)
    ELSE IF b = <<>> THEN Len(a)
    ELSE LET del  == OSA(Tail(a), b) + 1
             ins  == OSA(a, Tail(b)) + 1
             sub  == OSA(Tail(a), Tail(b)) + (IF a[1] = b[1] THEN 0 ELSE 1)
             best == Min2(Min2(del, ins), sub)
         IN IF Len(a) >= 2 /\ Len(b) >= 2 /\ a[1] = b[2] /\ a[2] = b[1]
            THEN Min2(best, OSA(Tail(Tail(a)), Tail(Tail(b))) + 1)
            ELSE best

Distance == [a \in LowerWords |-> [b \in LowerWords |-> OSA(a, b)]]

\* the stored words within budget k of query q
Matches(root, q, k) == {w \in WordsUnder(root, <<>>) : Distance[w][q] <= k}

ResultWords(result) == {result[i].word : i \in DOMAIN result}

\* the non-empty prefixes of a string
Prefixes(w) == {SubSeq(w, 1, i) : i \in 1..Len(w)}

\* a limit larger than the number of stored words
Unbounded(t) == Cardinality(WordsUnder(t.root, <<>>)) + 1

----------------------------------------------------------------------------
(* Properties *)

C3_FuzzyOrdered ==
    last.op = "searchFuzzy" =>
        /\ Len(last.result) <= last.limit
        /\ \A i, j \in DOMAIN last.result :
            i < j => \/ last.result[i].dist < last.result[j].dist
                     \/ /\ last.result[i].dist = last.result[j].dist
                        /\ localeLess(last.result[i].word, last.result[j].word)

\* searchFuzzy returned two words at the same distance, and the first inserted
\* of the two comes second
C3_Witness ==
    /\ last.op = "searchFuzzy"
    /\ Len(last.result) = 2
    /\ last.result[1].dist = last.result[2].dist
    /\ trie.children[1].key = last.result[2].word[1]
    /\ trie.children[1].key # last.result[1].word[1]

C5_RoundTrip ==
    (last.op = "insert" /\ Len(last.word) >= 2) =>
        \A n \in Limits :
            toLowerCase(last.word) \in Range(
                CASE impl = "freq" -> FreqSearch(ftrie, last.word, n, Null)
                  [] impl = "fuzzy" -> Search(trie, last.word, n)
                  [] impl = "sorted" -> SortedSearch(strie, last.word, n))

\* part_000's Trie: W was just inserted while a longer word that starts with W
\* is stored
C5_Witness ==
    /\ impl = "fuzzy" /\ last.op = "insert" /\ Len(last.word) >= 2
    /\ \E v \in WordsUnder(trie, <<>>) :
        v # toLowerCase(last.word) /\ startsWith(v, toLowerCase(last.word))

C7_NoDeadNode ==
    impl = "freq" =>
        \A i \in DOMAIN ftrie.root.children : Live(ftrie.root.children[i].value)

\* a word was just removed and its node deleted, while the node of its first
\* letter stays, being on the path of another word
C7_Witness ==
    /\ impl = "freq" /\ last.op = "remove"
    /\ toLowerCase(last.word) \in WordsUnder(pre.root, <<>>)
    /\ FreqNavigate(ftrie.root, toLowerCase(last.word), 1) = Null
    /\ FreqNavigate(ftrie.root, SubSeq(toLowerCase(last.word), 1, 1), 1) # Null

\* C8: wordCount is the number of nodes whose isWord flag is set, and is never
\* negative.
C8_WordCount ==
    impl = "freq" =>
        /\ ftrie.wordCount = Cardinality(WordsUnder(ftrie.root, <<>>))
        /\ ftrie.wordCount >= 0

\* a stored word was just inserted again, or an absent word was just removed
C8_Witness ==
    /\ impl = "freq" /\ ftrie.wordCount >= 1
    /\ \/ last.op = "insert" /\ toLowerCase(last.word) \in WordsUnder(pre.root, <<>>)
       \/ last.op = "remove" /\ toLowerCase(last.word) \notin WordsUnder(pre.root, <<>>)

\* C9: remove(W) of a string that is not a stored word leaves the whole trie
\* unchanged: nodes, isWord flags, frequencies and wordCount.
C9_RemoveAbsentNoOp ==
    (impl = "freq" /\ last.op = "remove"
        /\ toLowerCase(last.word) \notin WordsUnder(pre.root, <<>>))
    => ftrie = pre

\* the string just removed is not stored and is a proper prefix of a stored word
C9_Witness ==
    /\ impl = "freq" /\ last.op = "remove" /\ last.word # <<>>
    /\ toLowerCase(last.word) \notin WordsUnder(pre.root, <<>>)
    /\ FreqNavigate(pre.root, toLowerCase(last.word), 1) # Null

\* C10 as stated: the ordered result of search(P, limit) after insert(W);
\* insert(W) is the result after a single insert(W).
C10_Original ==
    [][(/\ impl = "freq"
        /\ last.op = "insert"
        /\ last'.op = "insert" /\ last'.word = last.word
        /\ last'.frequency = last.frequency)
       => \A p \in InputWords, n \in Limits :
            FreqSearch(ftrie', p, n, Null) = FreqSearch(ftrie, p, n, Null)]_vars

\* C10 amended: search(P, limit) after insert(W); insert(W) returns the same
\* set of words as after a single insert(W); their order may differ.
C10_InsertTwiceSameWords ==
    [][(/\ impl = "freq"
        /\ last.op = "insert"
        /\ last'.op = "insert" /\ last'.word = last.word
        /\ last'.frequency = last.frequency)
       => \A p \in InputWords, n \in Limits :
            /\ Range(FreqSearch(ftrie', p, n, Null)) = Range(FreqSearch(ftrie, p, n, Null))
            /\ Len(FreqSearch(ftrie', p, n, Null)) = Len(FreqSearch(ftrie, p, n, Null))]_vars

\* a stored word was just inserted again while another word with the same
\* first letter is stored
C10_Witness ==
    /\ impl = "freq" /\ last.op = "insert" /\ Len(last.word) >= 2
    /\ FreqInsert(pre, last.word, last.frequency) = ftrie
    /\ toLowerCase(last.word) \in WordsUnder(pre.root, <<>>)
    /\ \E v \in WordsUnder(pre.root, <<>>) :
        v # toLowerCase(last.word) /\ v[1] = toLowerCase(last.word)[1]

----------------------------------------------------------------------------
(* Reference definitions of the properties of search order *)

\* the stored words of a frequency (sub)tree with their frequencies
RECURSIVE EntriesUnder(_)
EntriesUnder(node) ==
    (IF node.isWord THEN {[word |-> node.word[1], frequency |-> node.frequency]} ELSE {})
    \cup UNION {EntriesUnder(node.children[i].value) : i \in DOMAIN node.children}

\* every order in which the elements of a finite set can be listed
Orders(S) == {o \in [1..Cardinality(S) -> S] : Range(o) = S}

\* the frequency Trie built by inserting the entries of a list in turn
RECURSIVE BuildFrom(_)
BuildFrom(entries) ==
    IF entries = <<>> THEN FreqTrie
    ELSE FreqInsert(BuildFrom(SubSeq(entries, 1, Len(entries) - 1)),
                    entries[Len(entries)].word, entries[Len(entries)].frequency)

\* a set of words as the list in ascending alphabetical order
Alphabetical(S) ==
    CHOOSE o \in Orders(S) : \A i, j \in DOMAIN o : i < j => localeLess(o[i], o[j])

\* C11: two frequency tries built by inserting the same words with the same
\* frequencies in different orders return the same ordered list from
\* search(P, limit), for every prefix and every limit.
C11_OrderIndependent ==
    impl = "freq" =>
        \A o1, o2 \in Orders(EntriesUnder(ftrie.root)) :
            BuildFrom(o1) = ftrie =>
                \A p \in InputWords, n \in Limits :
                    FreqSearch(BuildFrom(o2), p, n, Null) = FreqSearch(ftrie, p, n, Null)

\* C12: search of part_000's Trie returns the first limit entries of the
\* alphabetically sorted list of the stored words that start with the lower-case
\* prefix.
C12_AlphabeticalPrefixList ==
    (impl = "fuzzy" /\ last.op = "search" /\ last.word # <<>>) =>
        last.result = slice0(Alphabetical({w \in WordsUnder(trie, <<>>) :
                                  startsWith(w, toLowerCase(last.word))}), last.limit)

\* the stored entries whose word starts with the lower-case prefix
EntriesWith(t, prefix) ==
    {e \in EntriesUnder(t.root) : startsWith(e.word, toLowerCase(prefix))}

\* C30: search(P, limit) of the frequency Trie returns the limit best stored
\* words that start with P under the order frequency descending, then
\* alphabetical: as many words as there are, up to limit, each of them stored
\* with the prefix, and no word left out has a higher frequency than a
\* returned word, or the same frequency and an alphabetically smaller word.
C30_FrequencyRanking ==
    impl = "freq" =>
        \A p \in InputWords \ {<<>>}, n \in Limits :
        \A result \in {FreqSearch(ftrie, p, n, Null)} :
        \A under \in {EntriesWith(ftrie, p)} :
            /\ Len(result) = Min2(n, Cardinality(under))
            /\ \A i \in DOMAIN result : \E r \in under :
                   /\ r.word = result[i]
                   /\ \A e \in under :
                          e.word \notin Range(result) =>
                              /\ e.frequency <= r.frequency
                              /\ e.frequency = r.frequency => localeLess(r.word, e.word)

----------------------------------------------------------------------------
(* Properties of the three Trie classes together *)

\* search of the Trie class the behaviour drives, on its present trie
SearchOf(p, n) ==
    CASE impl = "freq" -> FreqSearch(ftrie, p, n, Null)
      [] impl = "fuzzy" -> Search(trie, p, n)
      [] impl = "sorted" -> SortedSearch(strie, p, n)

\* the root of the present trie of the class the behaviour drives
RootOf ==
    CASE impl = "freq" -> ftrie.root
      [] impl = "fuzzy" -> trie
      [] impl = "sorted" -> strie

\* a limit larger than the number of stored words
NoLimit == Cardinality(WordsUnder(RootOf, <<>>)) + 1

\* C13: for non-empty prefixes P1 and P2 where P2 extends P1, every word
\* search(P2, L) returns is returned by search(P1, L), for L larger than the
\* number of stored words.  A query leaves the trie as it is, so the tries are
\* those of the states before a query.
C13_PrefixMonotone ==
    Mutable =>
        \A L \in {NoLimit} :
        \A found \in {[p \in TypedWords |-> Range(SearchOf(p, L))]} :
            \A p1, p2 \in TypedWords : startsWith(p2, p1) => found[p2] \subseteq found[p1]

\* frequency Trie: a prefix and a longer one both find words, the shorter more
C13_Witness ==
    /\ impl = "freq" /\ Mutable
    /\ \E p1, p2 \in TypedWords :
        /\ startsWith(p2, p1) /\ p1 # p2
        /\ Range(SearchOf(p2, NoLimit)) # {}
        /\ Range(SearchOf(p1, NoLimit)) # Range(SearchOf(p2, NoLimit))

\* C14: in every Trie class, insert of the empty string or of a one-character
\* word leaves the trie as it was: no node is created and no word is marked.
C14_ShortInsertNoOp ==
    (last.op = "insert" /\ Len(last.word) <= 1) =>
        CASE impl = "freq" -> ftrie = pre
          [] impl = "fuzzy" -> trie = pre
          [] impl = "sorted" -> strie = pre

\* the strings that differ from w in letter case only
SameLetters(w) == {v \in CaseWords \cup {<<>>} : toLowerCase(v) = toLowerCase(w)}

\* the prefixes with an upper-case letter
MixedCase == {w \in TypedWords : w # toLowerCase(w)}

\* C15: in each Trie class, insert of two words that differ in letter case only
\* produces the same trie; every word search and searchFuzzy return is
\* lower-case; and search returns the same list for two prefixes that differ in
\* letter case only (each prefix with an upper-case letter is compared with its
\* lower-case form).
C15_CaseCanonical ==
    /\ last.op = "insert" =>
            \A v \in SameLetters(last.word) :
                CASE impl = "freq" -> FreqInsert(pre, v, last.frequency) = ftrie
                  [] impl = "fuzzy" -> Insert(pre, v) = trie
                  [] impl = "sorted" -> SortedInsert(pre, v) = strie
    /\ \A p \in Words1 :
            \A found \in {SearchOf(p, NoLimit)} :
                \A i \in DOMAIN found : found[i] = toLowerCase(found[i])
    /\ \A p \in MixedCase, n \in Limits :
            \A found \in {SearchOf(p, n)} :
                /\ \A i \in DOMAIN found : found[i] = toLowerCase(found[i])
                /\ SearchOf(toLowerCase(p), n) = found
    /\ impl = "fuzzy" =>
            \A q \in MixedCase, k \in Budgets, n \in Limits :
                \A found \in {SearchFuzzy(trie, q, k, n)} :
                    /\ \A i \in DOMAIN found : found[i].word = toLowerCase(found[i].word)
                    /\ SearchFuzzy(trie, toLowerCase(q), k, n) = found

\* part_000's Trie: a word with an upper-case letter was just inserted while its
\* lower-case form was stored, and a prefix with an upper-case letter finds it
C15_Witness ==
    /\ impl = "fuzzy" /\ last.op = "insert"
    /\ last.word \in MixedCase
    /\ toLowerCase(last.word) \in WordsUnder(pre, <<>>)
    /\ \E p \in MixedCase : toLowerCase(last.word) \in Range(SearchOf(p, NoLimit))

----------------------------------------------------------------------------
(* Properties of getSuggestions of src/unnamed/part_000 *)

\* the stored words that start with the lower-case prefix of the last call
ExactWords == {w \in WordsUnder(trie, <<>>) : startsWith(w, toLowerCase(last.word))}

\* a suggestion that does not start with the prefix of the last call
FuzzyOnly(w) == ~startsWith(toLowerCase(w), toLowerCase(last.word))

\* C16: getSuggestions never returns the query itself: no returned word equals
\* the prefix case-insensitively.
C16_NeverSelf ==
    last.op = "getSuggestions" =>
        \A i \in DOMAIN last.result :
            toLowerCase(last.result[i]) # toLowerCase(last.word)

\* C17: whenever at least limit stored words start with the prefix, the result
\* is the first limit words of the exact prefix search and holds no fuzzy
\* candidate; a fuzzy candidate is in the result only when fewer than limit
\* stored words start with the prefix.
C17_ShortCircuit ==
    last.op = "getSuggestions" =>
        /\ Cardinality(ExactWords) >= last.limit =>
                /\ Len(last.result) = last.limit
                /\ last.result = SubSeq(Search(trie, last.word, last.limit * 2), 1, last.limit)
                /\ \A i \in DOMAIN last.result : last.result[i] \in ExactWords
        /\ (\E i \in DOMAIN last.result : FuzzyOnly(last.result[i])) =>
                Cardinality(ExactWords) < last.limit

\* at least limit stored words start with the prefix, and a stored word that
\* does not is within the edit budget
C17_Witness ==
    /\ last.op = "getSuggestions"
    /\ Cardinality(ExactWords) >= last.limit
    /\ \E w \in WordsUnder(trie, <<>>) :
        FuzzyOnly(w) /\ Distance[w][toLowerCase(last.word)] <= last.maxEdits

\* C18: the result of getSuggestions has at most limit entries, no two of them
\* equal case-insensitively, and every word that starts with the prefix comes
\* before every word that does not.
C18_Merge ==
    last.op = "getSuggestions" =>
        /\ Len(last.result) <= last.limit
        /\ \A i, j \in DOMAIN last.result :
            i < j => /\ toLowerCase(last.result[i]) # toLowerCase(last.result[j])
                     /\ ~(FuzzyOnly(last.result[i]) /\ ~FuzzyOnly(last.result[j]))

\* the result is a word that starts with the prefix, which searchFuzzy returned
\* too, followed by a word that does not
C18_Witness ==
    /\ last.op = "getSuggestions"
    /\ Len(last.result) = 2
    /\ ~FuzzyOnly(last.result[1]) /\ FuzzyOnly(last.result[2])
    /\ Distance[last.result[1]][toLowerCase(last.word)] <= last.maxEdits

\* getSuggestions fell back to fuzzy search with the edit budget k: every
\* suggestion that does not start with the prefix is within distance k of it,
\* and every stored word within distance k, the prefix itself excepted, is
\* suggested when there is room for all of them
FellBackWith(k) ==
    (last.op = "getSuggestions" /\ Cardinality(ExactWords) < last.limit) =>
        /\ \A i \in DOMAIN last.result :
            FuzzyOnly(last.result[i]) =>
                Distance[last.result[i]][toLowerCase(last.word)] <= k
        /\ \A near \in {Matches(trie, toLowerCase(last.word), k) \ {toLowerCase(last.word)}} :
            Cardinality(ExactWords \cup near) <= last.limit => near \subseteq Range(last.result)

\* C19 as stated: when getSuggestions falls back to fuzzy search, the edit
\* budget is computed from the length of the prefix.
C19_Original == FellBackWith(PolicyBudget(Len(last.word)))

\* C19 amended: when getSuggestions falls back to fuzzy search, the edit budget
\* is the setting fuzzyEdits, whatever the length of the prefix.
C19_BudgetIsSetting == FellBackWith(last.maxEdits)

\* getSuggestions fell back with a budget of at least 1, suggested a word at
\* exactly that distance and left out a stored word one edit further, with
\* room to spare
C19_Witness ==
    /\ last.op = "getSuggestions" /\ last.maxEdits >= 1
    /\ Cardinality(ExactWords) < last.limit
    /\ Len(last.result) < last.limit
    /\ \E i \in DOMAIN last.result :
        FuzzyOnly(last.result[i])
        /\ Distance[last.result[i]][toLowerCase(last.word)] = last.maxEdits
    /\ \E w \in WordsUnder(trie, <<>>) :
        Distance[w][toLowerCase(last.word)] = last.maxEdits + 1

----------------------------------------------------------------------------
(* Properties of the queries *)

\* what the query recorded in call returns on the frequency Trie ft and on
\* part_000's Trie tr
Answer(call, ft, tr) ==
    CASE impl = "fuzzy" /\ call.op = "search" -> Search(tr, call.word, call.limit)
      [] impl = "fuzzy" /\ call.op = "searchFuzzy" -> SearchFuzzy(tr, call.word, call.maxEdits, call.limit)
      [] impl = "fuzzy" /\ call.op = "getSuggestions" -> GetSuggestions(tr, call.word, call.limit, call.maxEdits)
      [] impl = "freq" /\ call.op = "search" -> FreqSearch(ft, call.word, call.limit, call.excludeWord)
      [] impl = "freq" /\ call.op = "fuzzySearch" -> FreqFuzzySearch(ft, call.word, call.limit, call.excludeWord)
      [] impl = "freq" /\ call.op = "getSuggestions" -> FreqGetSuggestions(ft, call.word, call.settings, call.documentWords)

ReadOps == {"search", "searchFuzzy", "fuzzySearch", "getSuggestions"}

\* C21: search, searchFuzzy, fuzzySearch and getSuggestions leave the trie as it
\* was: the same nodes, isWord flags, frequencies and wordCount.  So the query
\* just made returns the same on the trie it leaves behind, and a query made
\* before it still returns what it returned.
C21_QueriesReadOnly ==
    [][last'.op \in ReadOps =>
        /\ ftrie' = ftrie /\ trie' = trie /\ strie' = strie
        /\ Answer(last', ftrie', trie') = last'.result
        /\ last.op \in ReadOps => Answer(last, ftrie', trie') = last.result]_vars

\* fuzzySearch found two words, one of them one substitution away from its
\* prefix, and calls that change the trie can follow
C21_Witness ==
    /\ impl = "freq" /\ last.op = "fuzzySearch"
    /\ Len(last.result) >= 2
    /\ \E i \in DOMAIN last.result : ~startsWith(last.result[i], toLowerCase(last.word))
    /\ nops < MaxOps

\* C22: insert, remove, search and searchFuzzy never throw, whatever the
\* argument; called with the empty string, a blank string, a one-character
\* string or a missing argument, insert and remove leave the trie as it was and
\* search and searchFuzzy return an empty list.
C22_Total ==
    last.op \in {"insert", "remove", "search", "searchFuzzy"} =>
        /\ ~last.thrown
        /\ last.word \in DegenerateWords =>
            /\ last.op \in {"insert", "remove"} => RootOf = (IF impl = "freq" THEN pre.root ELSE pre)
            /\ last.op \in {"search", "searchFuzzy"} => last.result = <<>>

\* C23: searchFuzzy of part_000 returns an empty list when the query is the
\* empty string or is made of blanks only, whatever the trie, the budget and
\* the limit.
C23_DegenerateQuery ==
    (impl = "fuzzy" /\ last.op = "searchFuzzy" /\ last.word \in {<<>>, Blank}) =>
        last.result = <<>>

\* C24: addCustomWord(w) called a second time leaves settings.customWords, the
\* stored words and every frequency as the first call left them, and so does
\* removeCustomWord(w) called a second time.
C24_CustomWordIdempotent ==
    [][(/\ last.op \in {"addCustomWord", "removeCustomWord"}
        /\ last'.op = last.op /\ last'.word = last.word)
       => /\ settings' = settings
          /\ ftrie' = ftrie]_vars

\* addCustomWord was just called with a word that is a custom word already,
\* stored with a frequency above 5, and the call left the trie as it was
C24_Witness ==
    /\ last.op = "addCustomWord"
    /\ trim(last.word) \in Range(settings.customWords)
    /\ ftrie = pre
    /\ \E e \in EntriesUnder(ftrie.root) :
        e.word = toLowerCase(trim(last.word)) /\ e.frequency > 5

(* Properties of the plugins on an editor *)

\* suggestions are shown: the dropdown of src/main.js, the ghost text of part_000
Shown == IF impl = "fuzzy" THEN ui # Null ELSE ui.visible

\* the text of the selected suggestion
SelectedText ==
    IF impl = "fuzzy" THEN ui[1].suggestions[ui[1].currentIndex + 1].text
    ELSE ui.suggestions[ui.selectedIndex + 1]

\* String.prototype.endsWith
endsWith(s, p) == Len(p) <= Len(s) /\ SubSeq(s, Len(s) - Len(p) + 1, Len(s)) = p

\* C25: in each of the three plugins, while suggestions are shown, Enter
\* without Shift and Tab put the selected suggestion (and the space of
\* addSpace) in the document before the cursor and close the suggestions;
\* Escape closes them and leaves the document as it is.
C25_Keyboard ==
    [][(last'.op = "keydown" /\ Shown) =>
          /\ (last'.key = "Tab" \/ (last'.key = "Enter" /\ ~last'.shiftKey)) =>
                 /\ ~Shown'
                 /\ endsWith(editor'.before, SelectedText \o Suffix(settings))
          /\ last'.key = "Escape" => (~Shown' /\ editor' = editor)]_vars

\* C26: while settings.enabled is false no suggestions are shown, whatever the
\* order of typed characters, timeouts and changes of the setting.
C26_DisabledShowsNothing == ~settings.enabled => ~Shown

\* settings.minLength, named minWordLength in the plugin of the frequency Trie
MinLength == IF impl = "freq" THEN settings.minWordLength ELSE settings.minLength

\* C27: getSuggestions is not called with a word shorter than the minimum
\* length of the settings, and process() / processSuggestions() of src/main.js
\* leave the dropdown hidden when they return without calling it (no word
\* before the cursor, a word that is too short, the cursor inside a word).
C27_MinLength ==
    /\ last.op = "getSuggestions" => Len(last.word) >= MinLength
    /\ (impl # "fuzzy" /\ last.op = "process") => ~ui.visible

\* k CycleSuggestionEffects of +1, one after the other
RECURSIVE CycleTimes(_, _)
CycleTimes(ghost, k) ==
    IF k = 0 THEN ghost ELSE CycleTimes(Cycle(ghost, 1), k - 1)

\* C34: a GhostTextState that is not null has at least one suggestion and
\* 0 <= currentIndex < suggestions.length; a cycle of +1 followed by a cycle of
\* -1 restores currentIndex, suggestions.length cycles of +1 return to the
\* index they started from, and a cycle changes neither suggestions nor cursorPos.
C34_GhostState ==
    (impl = "fuzzy" /\ ui # Null) =>
        LET n == Len(ui[1].suggestions)
        IN /\ n > 0
           /\ ui[1].currentIndex \in 0..(n - 1)
           /\ Cycle(Cycle(ui, 1), -1) = ui
           /\ Cycle(Cycle(ui, -1), 1) = ui
           /\ CycleTimes(ui, n) = ui
           /\ \A step \in {1, -1} :
                  /\ Cycle(ui, step)[1].suggestions = ui[1].suggestions
                  /\ Cycle(ui, step)[1].cursorPos = ui[1].cursorPos
                  /\ Cycle(ui, step)[1].currentIndex \in 0..(n - 1)

\* ArrowLeft on the first of several suggestions has selected the last one
C34_Witness ==
    /\ impl = "fuzzy" /\ last.op = "keydown" /\ last.key = "ArrowLeft"
    /\ ui # Null
    /\ Len(ui[1].suggestions) > 1
    /\ ui[1].currentIndex = Len(ui[1].suggestions) - 1

\* C35: Tab pressed in part_000 with the cursor at cursorPos of the
\* GhostTextState clears the state, leaves the cursor right after the inserted
\* text, and the text from the start of the typed word to the cursor is, up to
\* letter case, the stored word of the selected suggestion followed by one
\* space iff settings.addSpace.
C35_TabAccepts ==
    [][(/\ impl = "fuzzy" /\ ui # Null
        /\ Len(editor.before) = ui[1].cursorPos
        /\ last'.op = "keydown" /\ last'.key = "Tab") =>
            LET state == ui[1]
                typed == WordBefore(editor.before)
                wordStart == Len(editor.before) - Len(typed)
                selected == state.suggestions[state.currentIndex + 1]
                from == IF selected.isFuzzy THEN wordStart ELSE state.cursorPos
                text == SubSeq(editor'.before, wordStart + 1, Len(editor'.before))
                space == IF settings.addSpace THEN <<" ">> ELSE <<>>
            IN /\ ui' = Null
               /\ Len(editor'.before) = from + Len(selected.text) + Len(space)
               /\ editor'.after = editor.after
               /\ \E w \in WordsUnder(trie, <<>>) :
                      /\ GhostSuggestion(w, typed, state.cursorPos, wordStart) = Some(selected)
                      /\ toLowerCase(text) = toLowerCase(w) \o space]_vars

\* C36: in part_000, while the plugin is enabled, the suggestions are computed
\* by a timeout only if the document has not changed since the timeout was set:
\* the cursor is still where it was and the word before it is the one the
\* timeout was set for.
C36_Debounce ==
    [][(impl = "fuzzy" /\ settings.enabled /\ timer # Null /\ timer' = Null) =>
           /\ timer[1].cursorPos = Len(editor.before)
           /\ timer[1].prefix = WordBefore(editor.before)]_vars

\* C33: in part_000, whenever GhostTextState is not null its cursorPos is the
\* head of the selection, that is the position of the cursor.
C33_GhostAtCursor ==
    (impl = "fuzzy" /\ ui # Null) => ui[1].cursorPos = Len(editor.before)

----------------------------------------------------------------------------
----------------------------------------------------------------------------
(* Properties of loadDictionary *)

\* the trie of the plugin driven
TrieOf == CASE impl = "freq" -> ftrie [] impl = "fuzzy" -> trie [] impl = "sorted" -> strie

\* the trie when the read of words.txt is attempted: the plugin of the
\* frequency Trie has inserted the custom words by then
BeforeRead == IF impl = "freq" THEN FreqLoadCustomWords(pre, settings.customWords) ELSE pre

\* C28: when reading words.txt fails, loadDictionary returns without raising
\* an error and the trie is the trie the read was attempted on: it stores the
\* same words, with the same frequencies.
C28_LoadFailure ==
    (last.op = "loadDictionary" /\ last.read.outcome = "fails") =>
        (~last.thrown /\ TrieOf = BeforeRead)

\* a failed read on a frequency Trie that held a word and got a custom word
C28_Witness ==
    /\ last.op = "loadDictionary" /\ last.read.outcome = "fails"
    /\ impl = "freq" /\ pre.wordCount > 0 /\ Len(settings.customWords) > 0

----------------------------------------------------------------------------
(* Properties of searchFuzzy on a dictionary that fills the candidate buffer *)

\* the entry of the reference list for a stored word
ReferenceEntry(w, q) == [word |-> w, dist |-> Distance[w][q]]

\* C29: for a non-empty query, searchFuzzy returns the first limit entries of
\* the list of all stored words within distance k of the lower-case query,
\* sorted by ascending distance and then lexicographically: as many entries
\* as that list gives, each a stored word with its distance, in that order,
\* and no word left out comes before a returned one.
C29_Reference ==
    (last.op = "searchFuzzy" /\ ~Falsy(last.word)) =>
        \A q \in {toLowerCase(last.word)} :
        \A M \in {Matches(trie, q, last.maxEdits)} :
            /\ Len(last.result) = Min2(last.limit, Cardinality(M))
            /\ \A i \in DOMAIN last.result :
                   /\ last.result[i].word \in M
                   /\ last.result[i] = ReferenceEntry(last.result[i].word, q)
                   /\ \A j \in DOMAIN last.result :
                          i < j => FuzzyBefore(last.result[i], last.result[j])
                   /\ \A w \in M \ ResultWords(last.result) :
                          FuzzyBefore(last.result[i], ReferenceEntry(w, q))

----------------------------------------------------------------------------
(* Properties of fuzzySearch of the frequency Trie *)

\* two strings of the same length that differ in at most one position
OneSubstitution(a, b) ==
    Len(a) = Len(b) /\ Cardinality({i \in DOMAIN a : a[i] # b[i]}) <= 1

\* C31: for a query of at least 3 characters fuzzySearch returns at most limit
\* words, each starting with a string of the length of the query that differs
\* from the lower-case query in at most one position, the words that start
\* with the query before the others; for a shorter (or missing) query it
\* returns what search returns for the same arguments.
C31_FuzzySearch ==
    last.op = "fuzzySearch" =>
        IF ~Falsy(last.word) /\ Len(last.word) >= 3
        THEN \A q \in {toLowerCase(last.word)} :
                 /\ Len(last.result) <= last.limit
                 /\ \A i \in DOMAIN last.result :
                        /\ Len(last.result[i]) >= Len(q)
                        /\ OneSubstitution(SubSeq(last.result[i], 1, Len(q)), q)
                 /\ \A i, j \in DOMAIN last.result :
                        (startsWith(last.result[j], q) /\ ~startsWith(last.result[i], q))
                            => j < i
        ELSE last.result = FreqSearch(ftrie, last.word, last.limit, last.excludeWord)

\* fuzzySearch returned a longer word that starts with the query, then a word
\* one substitution away, and a third word was cut by the limit
C31_Witness ==
    /\ last.op = "fuzzySearch" /\ Len(last.word) = 3
    /\ Len(last.result) = 2 /\ last.limit = 2
    /\ startsWith(last.result[1], toLowerCase(last.word)) /\ Len(last.result[1]) = 4
    /\ ~startsWith(last.result[2], toLowerCase(last.word))
    /\ ftrie.wordCount = 3

----------------------------------------------------------------------------
(* Properties of getSuggestions of the plugin of the frequency Trie *)

\* C32: getSuggestions of the plugin of the frequency Trie returns at most
\* maxSuggestions entries, no two of them the same string, and none equal,
\* whatever the letter case, to the typed word or to an entry of excludeWords.
C32_Suggestions ==
    (impl = "freq" /\ last.op = "getSuggestions") =>
        /\ Len(last.result) <= last.settings.maxSuggestions
        /\ \A i, j \in DOMAIN last.result : i # j => last.result[i] # last.result[j]
        /\ \A i \in DOMAIN last.result :
               /\ toLowerCase(last.result[i]) # toLowerCase(last.word)
               /\ \A k \in DOMAIN last.settings.excludeWords :
                      toLowerCase(last.result[i]) # toLowerCase(last.settings.excludeWords[k])

----------------------------------------------------------------------------
(* Properties of the dropdown of the plugin of the frequency Trie *)

\* C37: after any sequence of show, moveSelection, setSelected by the mouse,
\* accept and destroy, isVisible is true iff dropdown is not null iff
\* suggestions is not empty; while visible 0 <= selectedIndex <
\* suggestions.length; moveSelection('down') on the last item selects the
\* first one and moveSelection('up') on the first item selects the last one.
C37_Dropdown ==
    impl = "freq" =>
        LET length == Len(ui.suggestions)
        IN /\ ui.isVisible <=> ui.dropdown # Null
           /\ ui.dropdown # Null <=> length > 0
           /\ ui.isVisible => ui.selectedIndex \in 0..(length - 1)
           /\ (ui.isVisible /\ ui.selectedIndex = length - 1) =>
                  moveSelection(ui, "down").selectedIndex = 0
           /\ (ui.isVisible /\ ui.selectedIndex = 0) =>
                  moveSelection(ui, "up").selectedIndex = length - 1

\* moveSelection('up') on the first of three items has selected the third
C37_Witness ==
    /\ impl = "freq" /\ last.op = "moveSelection" /\ last.key = "up"
    /\ ui.isVisible /\ ui.dropdown # Null
    /\ Len(ui.suggestions) = 3
    /\ ui.selectedIndex = 2

----------------------------------------------------------------------------
(* Properties of the custom dictionary *)

\* C38: after any sequence of addCustomWord, removeCustomWord and 'Clear All',
\* every entry w of settings.customWords of length >= 2 is a stored word of
\* the trie: search returns lower-case w; entries may differ in letter case only.
C38_CustomWordsStored ==
    impl = "freq" =>
        \A i \in DOMAIN settings.customWords :
            LET w == settings.customWords[i]
            IN Len(w) >= 2 =>
                   toLowerCase(w) \in Range(FreqSearch(ftrie, w, Unbounded(ftrie), Null))

----------------------------------------------------------------------------
(* Properties of a word that is removed and inserted again *)

\* the lists of insert calls that built the trie a word is removed from
ReinsertLists ==
    {<<>>,
     <<[word |-> <<"a", "b">>, frequency |-> 1]>>,
     <<[word |-> <<"a", "b">>, frequency |-> 5], [word |-> <<"a", "b", "b">>, frequency |-> 1]>>,
     <<[word |-> <<"a", "b", "b">>, frequency |-> 5], [word |-> <<"b", "a">>, frequency |-> 1]>>,
     <<[word |-> <<"a", "a">>, frequency |-> 5], [word |-> <<"a", "b">>, frequency |-> 5],
       [word |-> <<"a", "b", "a">>, frequency |-> 1]>>}

ReinsertWords == {<<"a", "b">>, <<"A", "b">>, <<"a", "b", "b">>, <<"b", "a">>}

InitReinsert ==
    /\ impl = "freq"
    /\ \E entries \in ReinsertLists :
           /\ ftrie = BuildFrom(entries)
           /\ fstored = {entries[i].word : i \in DOMAIN entries}
    /\ pre = ftrie
    /\ trie = TrieNode
    /\ strie = TrieNode
    /\ last = NoCall
    /\ nops = 0
    /\ settings = FreqDefaultSettings
    /\ ui = AutocompleteUI
    /\ editor = EmptyLine
    /\ timer = Null
    /\ documentWords = <<>>

NextReinsert ==
    \/ \E w \in ReinsertWords : FreqRemoveCall(w)
    \/ \E w \in ReinsertWords, f \in Frequencies : FreqInsertCall(w, f)
    \/ \E p \in {<<"a">>, <<"b">>} : FreqSearchCall(p, MaxStored)

SpecReinsert == InitReinsert /\ [][NextReinsert]_vars

\* C39: in the frequency Trie, after remove(W) followed by insert(W, f) the
\* frequency W is ranked with is f, as if W had never been stored, whether or
\* not the node of W was kept for its children.
C39_FrequencyReset ==
    [][(/\ impl = "freq"
        /\ last.op = "remove"
        /\ last'.op = "insert" /\ last'.word = last.word)
       => \A e \in EntriesUnder(ftrie'.root) :
              e.word = toLowerCase(last'.word) => e.frequency = last'.frequency]_vars

----------------------------------------------------------------------------
(* Properties of matchCase *)

\* the upper-case letters
UpperLetters == {"A", "B"}

\* C20: for a non-empty word and a non-empty original, matchCase returns the
\* word in upper case if every character of original is upper-case; else the
\* word with its first character in upper case and the rest in lower case if
\* the first character of original is upper-case; else the word in lower case.
\* The three implementations return the same.
C20_MatchCase ==
    last.op = "matchCase" =>
        /\ last.result =
              IF \A i \in DOMAIN last.original : last.original[i] \in UpperLetters
              THEN [i \in DOMAIN last.word |-> UpperChar(last.word[i])]
              ELSE IF last.original[1] \in UpperLetters
              THEN [i \in DOMAIN last.word |->
                       IF i = 1 THEN UpperChar(last.word[i]) ELSE LowerChar(last.word[i])]
              ELSE [i \in DOMAIN last.word |-> LowerChar(last.word[i])]
        /\ MatchCase(last.word, last.original) = SortedMatchCase(last.word, last.original)
        /\ MatchCase(last.word, last.original) = FreqMatchCase(last.word, last.original)

\* matchCase returned a word that is neither the word given, nor all in upper
\* case, nor all in lower case
C20_Witness ==
    /\ last.op = "matchCase"
    /\ last.result # last.word
    /\ last.result # toUpperCase(last.word)
    /\ last.result # toLowerCase(last.word)

====
